---- MODULE Spec2Model ----
(***************************************************************************)
(* A model of json-to-dto: the metadata store filled by the @Prop and      *)
(* @Class decorators (src/src/decorators.ts, src/src/metadata-store.ts)    *)
(* and the recursive conversion convertToType (src/src/converters.ts)     *)
(* with the built-in validators (src/src/validators.ts).                   *)
(*                                                                         *)
(* JavaScript values are tagged pairs <<kind, payload>>:                   *)
(*   <<"undef",0>>  <<"null",0>>  <<"bool",b>>  <<"nan",0>>                *)
(*   <<"num",<<m,e>>>>   the decimal m * 10^-e, normalised                 *)
(*   <<"str",cs>>        cs a sequence of one-character strings            *)
(*   <<"date",t>>        a Date with time value <<"num",..>> or <<"nan",0>>*)
(*   <<"arr",vs>>        vs a sequence of values                           *)
(*   <<"obj",[proto |-> class name, props |-> [PropNames -> value]]>>      *)
(* An object's absent property reads as undefined, so props maps every     *)
(* name of PropNames and an absent property is <<"undef",0>>.              *)
(***************************************************************************)
EXTENDS Integers, Sequences, FiniteSets, TLC

VARIABLES
    classSet,                \* metadata-store.ts: classSet
    classTypeToPropMetadata, \* metadata-store.ts: classTypeToPropMetadata
    classTypeToPropValidator,\* metadata-store.ts: classTypeToPropValidator
    defining,                \* the class whose definition is being evaluated, or NoClass
    defined,                 \* the classes whose definition has been evaluated
    declared,                \* the @Prop applications so far: <<class, member, options>>
    declFailed,              \* TRUE when the last @Prop application threw
    call                     \* the last convertToType call: its arguments and outcome

vars == <<classSet, classTypeToPropMetadata, classTypeToPropValidator,
          defining, defined, declared, declFailed, call>>

-----------------------------------------------------------------------------
(* Values *)

Undefined == <<"undef", 0>>
Null == <<"null", 0>>
NaN == <<"nan", 0>>
Bool(b) == <<"bool", b>>
Str(cs) == <<"str", cs>>
Arr(vs) == <<"arr", vs>>
DateOf(t) == <<"date", t>>

Kind(v) == v[1]

\* The property names objects of the model may carry.
PropNames == {"x", "y", "z"}

\* An object with prototype proto whose properties are those of the function f.
Obj(proto, f) ==
    <<"obj", [proto |-> proto,
              props |-> [n \in PropNames |-> IF n \in DOMAIN f THEN f[n] ELSE Undefined]]>>

\* A plain object literal, as JSON.parse produces.
Plain(f) == Obj("Object", f)

Get(o, n) == IF n \in PropNames THEN o[2].props[n] ELSE Undefined

Put(o, n, v) == <<"obj", [proto |-> o[2].proto, props |-> [o[2].props EXCEPT ![n] = v]]>>

HasProp(o, n) == Get(o, n) # Undefined

\* typeof v
TypeOf(v) ==
    CASE Kind(v) = "undef" -> "undefined"
      [] Kind(v) = "bool" -> "boolean"
      [] Kind(v) \in {"num", "nan"} -> "number"
      [] Kind(v) = "str" -> "string"
      [] OTHER -> "object"

\* v == undefined (loose equality): undefined or null
IsNullish(v) == Kind(v) \in {"undef", "null"}

-----------------------------------------------------------------------------
(* Numbers: decimals m * 10^-e with e >= 0 and no trailing zero in the fraction *)

RECURSIVE Pow10(_)
Pow10(k) == IF k <= 0 THEN 1 ELSE 10 * Pow10(k - 1)

RECURSIVE NormDec(_, _)
NormDec(m, e) ==
    IF e > 0 /\ m % 10 = 0 THEN NormDec(m \div 10, e - 1)
    ELSE IF e < 0 THEN NormDec(m * 10, e + 1)
    ELSE <<m, e>>

Num(m, e) == <<"num", NormDec(m, e)>>
IntNum(n) == Num(n, 0)

IsNumber(v) == Kind(v) = "num"

\* n % 1 !== 0 for a number that is not NaN
HasFraction(v) == v[2][2] > 0

\* a <= b for two numbers that are not NaN
NumLeq(a, b) ==
    LET s == IF a[2][2] > b[2][2] THEN a[2][2] ELSE b[2][2]
    IN  a[2][1] * Pow10(s - a[2][2]) <= b[2][1] * Pow10(s - b[2][2])

-----------------------------------------------------------------------------
(* Strings *)

Digits == <<"0", "1", "2", "3", "4", "5", "6", "7", "8", "9">>

IsDigit(c) == \E i \in 1..10 : Digits[i] = c

DigitVal(c) == (CHOOSE i \in 1..10 : Digits[i] = c) - 1

IsSpace(c) == c = " "

\* The length of the longest prefix of cs made of digits.
RECURSIVE DigitRun(_)
DigitRun(cs) ==
    IF cs # <<>> /\ IsDigit(Head(cs)) THEN 1 + DigitRun(Tail(cs)) ELSE 0

\* The value of a sequence of digits.
RECURSIVE DigitsVal(_)
DigitsVal(cs) ==
    IF cs = <<>> THEN 0
    ELSE 10 * DigitsVal(SubSeq(cs, 1, Len(cs) - 1)) + DigitVal(cs[Len(cs)])

RECURSIVE TrimLeft(_)
TrimLeft(cs) == IF cs # <<>> /\ IsSpace(Head(cs)) THEN TrimLeft(Tail(cs)) ELSE cs

RECURSIVE TrimRight(_)
TrimRight(cs) ==
    IF cs # <<>> /\ IsSpace(cs[Len(cs)]) THEN TrimRight(SubSeq(cs, 1, Len(cs) - 1)) ELSE cs

\* String.prototype.trim
Trim(cs) == TrimRight(TrimLeft(cs))

Drop(cs, k) == SubSeq(cs, k + 1, Len(cs))

\* The decimal digits of a natural number.
RECURSIVE NatText(_)
NatText(n) == IF n < 10 THEN <<Digits[n + 1]>> ELSE NatText(n \div 10) \o <<Digits[(n % 10) + 1]>>

\* k digits of n, zero padded on the left.
RECURSIVE PadText(_, _)
PadText(n, k) == IF k = 0 THEN <<>> ELSE PadText(n \div 10, k - 1) \o <<Digits[(n % 10) + 1]>>

\* Number::toString of a number in the range where JavaScript uses plain
\* decimal notation.
NumberText(v) ==
    IF Kind(v) = "nan" THEN <<"N", "a", "N">>
    ELSE LET m == v[2][1]
             e == v[2][2]
             a == IF m < 0 THEN -m ELSE m
             p == Pow10(e)
         IN  (IF m < 0 THEN <<"-">> ELSE <<>>)
             \o NatText(a \div p)
             \o (IF e > 0 THEN <<".">> \o PadText(a % p, e) ELSE <<>>)

Lit_string == <<"s", "t", "r", "i", "n", "g">>
Lit_number == <<"n", "u", "m", "b", "e", "r">>
Lit_boolean == <<"b", "o", "o", "l", "e", "a", "n">>
Lit_object == <<"o", "b", "j", "e", "c", "t">>
Lit_true == <<"t", "r", "u", "e">>
Lit_false == <<"f", "a", "l", "s", "e">>
Lit_null == <<"n", "u", "l", "l">>
Lit_undefined == <<"u", "n", "d", "e", "f", "i", "n", "e", "d">>
Lit_objectObject == <<"[", "o", "b", "j", "e", "c", "t", " ", "O", "b", "j", "e", "c", "t", "]">>
Lit_InvalidDate == <<"I", "n", "v", "a", "l", "i", "d", " ", "D", "a", "t", "e">>

\* ToString(v), as used by '' + v, parseFloat(v) and new Date(v). A valid Date
\* prints as a weekday name followed by the date; only its first characters
\* matter to the parsers below, so the text is cut after the weekday.
RECURSIVE ToStringJS(_)
ToStringJS(v) ==
    CASE Kind(v) = "undef" -> Lit_undefined
      [] Kind(v) = "null" -> Lit_null
      [] Kind(v) = "bool" -> IF v[2] THEN Lit_true ELSE Lit_false
      [] Kind(v) \in {"num", "nan"} -> NumberText(v)
      [] Kind(v) = "str" -> v[2]
      [] Kind(v) = "date" -> IF Kind(v[2]) = "nan" THEN Lit_InvalidDate ELSE <<"T", "h", "u">>
      [] Kind(v) = "arr" ->
            \* Array.prototype.join(","): null and undefined elements print empty
            IF v[2] = <<>> THEN <<>>
            ELSE LET last == v[2][Len(v[2])]
                     text == IF IsNullish(last) THEN <<>> ELSE ToStringJS(last)
                 IN  IF Len(v[2]) = 1 THEN text
                     ELSE ToStringJS(Arr(SubSeq(v[2], 1, Len(v[2]) - 1))) \o <<",">> \o text
      [] OTHER -> Lit_objectObject

\* The longest prefix of cs that is a decimal literal (sign, digits, fraction,
\* exponent): <<its value, its length>>, the value NaN when there is none.
\* s is the length of the sign, ni the number of integer digits, nd the length
\* of the fraction with its dot, nx the number of exponent digits.
DecimalValue(cs, s, ni, nd, xs, nx) ==
    LET nf == IF nd > 0 THEN nd - 1 ELSE 0
        mant == DigitsVal(SubSeq(cs, s + 1, s + ni)) * Pow10(nf)
                + DigitsVal(SubSeq(cs, s + ni + 2, s + ni + nd))
        x == DigitsVal(SubSeq(cs, s + ni + nd + xs + 2, s + ni + nd + xs + 1 + nx))
        expNeg == xs = 1 /\ cs[s + ni + nd + 2] = "-"
    IN  IF ni = 0 /\ nf = 0 THEN <<NaN, 0>>
        ELSE <<Num(IF s = 1 /\ cs[1] = "-" THEN -mant ELSE mant,
                   nf - (IF nx = 0 THEN 0 ELSE IF expNeg THEN -x ELSE x)),
               s + ni + nd + (IF nx > 0 THEN 1 + xs + nx ELSE 0)>>

ExponentSign(cs, k) ==
    IF Len(cs) > k + 1 /\ cs[k + 1] \in {"e", "E"} /\ cs[k + 2] \in {"-", "+"} THEN 1 ELSE 0

ExponentDigits(cs, k, xs) ==
    IF Len(cs) > k /\ cs[k + 1] \in {"e", "E"} THEN DigitRun(Drop(cs, k + 1 + xs)) ELSE 0

DecimalExponent(cs, s, ni, nd, xs) ==
    DecimalValue(cs, s, ni, nd, xs, ExponentDigits(cs, s + ni + nd, xs))

DecimalFraction(cs, s, ni, nd) ==
    DecimalExponent(cs, s, ni, nd, ExponentSign(cs, s + ni + nd))

FractionLength(cs, k) ==
    IF Len(cs) > k /\ cs[k + 1] = "." THEN 1 + DigitRun(Drop(cs, k + 1)) ELSE 0

DecimalDigits(cs, s, ni) == DecimalFraction(cs, s, ni, FractionLength(cs, s + ni))

DecimalSigned(cs, s) == DecimalDigits(cs, s, DigitRun(Drop(cs, s)))

ParseDecimal(cs) == DecimalSigned(cs, IF cs # <<>> /\ Head(cs) \in {"-", "+"} THEN 1 ELSE 0)

\* parseFloat(v): ToString, skip leading white space, parse the longest prefix.
ParseFloat(v) == ParseDecimal(TrimLeft(ToStringJS(v)))[1]

\* StringToNumber: the whole trimmed text must be a literal; empty text is 0.
WholeLiteral(r, n) == IF r[2] = n THEN r[1] ELSE NaN

TrimmedToNumber(t) == IF t = <<>> THEN IntNum(0) ELSE WholeLiteral(ParseDecimal(t), Len(t))

StringToNumber(cs) == TrimmedToNumber(Trim(cs))

\* ToNumber(v), as the relational operators apply it to a non-string operand.
ToNumber(v) ==
    CASE Kind(v) = "undef" -> NaN
      [] Kind(v) = "null" -> IntNum(0)
      [] Kind(v) = "bool" -> IF v[2] THEN IntNum(1) ELSE IntNum(0)
      [] Kind(v) \in {"num", "nan"} -> v
      [] Kind(v) = "date" -> v[2]
      [] OTHER -> StringToNumber(ToStringJS(v))

\* ToBoolean(v)
Truthy(v) ==
    CASE Kind(v) \in {"undef", "null", "nan"} -> FALSE
      [] Kind(v) = "bool" -> v[2]
      [] Kind(v) = "num" -> v[2][1] # 0
      [] Kind(v) = "str" -> v[2] # <<>>
      [] OTHER -> TRUE

\* v.length: defined for strings and arrays, undefined otherwise
LengthOf(v) == IF Kind(v) \in {"str", "arr"} THEN IntNum(Len(v[2])) ELSE Undefined

\* a <= b, a >= b, a < b, a > b on operands of which one is a number: both go
\* through ToNumber and any NaN makes the comparison false.
NumbersLeq(x, y) == IsNumber(x) /\ IsNumber(y) /\ NumLeq(x, y)

NumbersLt(x, y) == IsNumber(x) /\ IsNumber(y) /\ ~NumLeq(y, x)

JsLeq(a, b) == NumbersLeq(ToNumber(a), ToNumber(b))

JsGeq(a, b) == JsLeq(b, a)

JsLt(a, b) == NumbersLt(ToNumber(a), ToNumber(b))

JsGt(a, b) == JsLt(b, a)

-----------------------------------------------------------------------------
(* Type descriptors (types.ts) *)

TInt == <<"Int", 0>>
TFloat == <<"Float", 0>>
TString == <<"String", 0>>
TBoolean == <<"Boolean", 0>>
TDate == <<"Date", 0>>
TObject == <<"Object", 0>>
\* an ArrayType is a JavaScript array of types; a well-formed one has one element
TArray(ts) == <<"Array", ts>>
TArrayOf(t) == TArray(<<t>>)
\* a class constructor
TClass(c) == <<"Class", c>>

-----------------------------------------------------------------------------
(* Outcomes of a call: a returned value or a thrown Error *)

\* An outcome is <<"ok", value, log>> or <<"throw", error, log>>; the log lists,
\* in order, the property stores and validator invocations of the call.
Ok(v) == <<"ok", v, <<>>>>
Throw(kind, cls, prop, why) ==
    <<"throw", [kind |-> kind, cls |-> cls, prop |-> prop, why |-> why], <<>>>>

IsOk(r) == r[1] = "ok"
IsThrow(r) == r[1] = "throw"
ValueOf(r) == r[2]
ErrorOf(r) == r[2]
LogOf(r) == r[3]

\* What the caller of convertToType observes of an outcome: the returned
\* value or the thrown error.
Result(r) == <<r[1], r[2]>>

Returned(r, v) == Result(r) = <<"ok", v>>

Threw(r, kind, cls, prop) ==
    Result(r) = <<"throw", [kind |-> kind, cls |-> cls, prop |-> prop, why |-> ""]>>

\* The outcome r of a step that ran after the events of log.
After(log, r) == <<r[1], r[2], log \o r[3]>>

SetEvent(cls, prop, v) == [ev |-> "set", cls |-> cls, prop |-> prop, arg |-> v, by |-> <<>>]
ValidateEvent(cls, prop, v, validator) ==
    [ev |-> "validate", cls |-> cls, prop |-> prop, arg |-> v, by |-> validator]

-----------------------------------------------------------------------------
(* Maps that keep insertion order (the inner Map<string, ...> of the store): *)
(* a sequence of entries, each with a name field.                          *)

MapHas(m, name) == \E i \in 1..Len(m) : m[i].name = name

MapIndex(m, name) == CHOOSE i \in 1..Len(m) : m[i].name = name

MapGet(m, name) == m[MapIndex(m, name)]

\* Map.prototype.set: an existing key keeps its position
MapSet(m, entry) ==
    IF MapHas(m, entry.name) THEN [m EXCEPT ![MapIndex(m, entry.name)] = entry]
    ELSE Append(m, entry)

\* Map.prototype.delete
MapDelete(m, name) ==
    IF MapHas(m, name)
    THEN LET i == MapIndex(m, name) IN SubSeq(m, 1, i - 1) \o SubSeq(m, i + 1, Len(m))
    ELSE m

MapKeys(m) == [i \in 1..Len(m) |-> m[i].name]

\* The outer Map<ClassType, ...> is a function whose domain is its key set.
OuterSet(outer, cls, inner) ==
    [k \in DOMAIN outer \cup {cls} |-> IF k = cls THEN inner ELSE outer[k]]

-----------------------------------------------------------------------------
(* Dates *)

MsPerDay == 24 * 60 * 60 * 1000

IsLeap(y) == (y % 4 = 0 /\ y % 100 # 0) \/ y % 400 = 0

LeapsBefore(y) == ((y - 1) \div 4) - ((y - 1) \div 100) + ((y - 1) \div 400)

DaysBeforeYear(y) == 365 * (y - 1970) + LeapsBefore(y) - LeapsBefore(1970)

MonthStart == <<0, 31, 59, 90, 120, 151, 181, 212, 243, 273, 304, 334, 365>>

DaysInMonth(y, m) ==
    MonthStart[m + 1] - MonthStart[m] + (IF m = 2 /\ IsLeap(y) THEN 1 ELSE 0)

DaysBeforeMonth(y, m) == MonthStart[m] + (IF m > 2 /\ IsLeap(y) THEN 1 ELSE 0)

AllDigits(cs) == cs # <<>> /\ DigitRun(cs) = Len(cs)

\* Date.parse on the ISO date-only forms YYYY, YYYY-MM and YYYY-MM-DD (UTC).
\* Any other text is not a date: the engines' fallback parsers for non-ISO
\* text are implementation-defined and the inputs of the model stay clear of
\* them (ISO text, or text without a digit).
DateParse(cs) ==
    LET n == Len(cs)
        wellFormed ==
            /\ n \in {4, 7, 10}
            /\ AllDigits(SubSeq(cs, 1, 4))
            /\ n >= 7 => (cs[5] = "-" /\ AllDigits(SubSeq(cs, 6, 7)))
            /\ n = 10 => (cs[8] = "-" /\ AllDigits(SubSeq(cs, 9, 10)))
        y == DigitsVal(SubSeq(cs, 1, 4))
        m == IF n >= 7 THEN DigitsVal(SubSeq(cs, 6, 7)) ELSE 1
        d == IF n = 10 THEN DigitsVal(SubSeq(cs, 9, 10)) ELSE 1
    IN  IF wellFormed /\ m \in 1..12 /\ d >= 1 /\ d <= DaysInMonth(y, m)
        THEN IntNum((DaysBeforeYear(y) + DaysBeforeMonth(y, m) + d - 1) * MsPerDay)
        ELSE NaN

\* TimeClip(ToNumber(v)): NaN stays NaN, a fraction is dropped (toward zero)
TimeClip(n) ==
    IF Kind(n) = "nan" THEN NaN
    ELSE LET p == Pow10(n[2][2])
             m == n[2][1]
         IN  IntNum(IF m < 0 THEN -((-m) \div p) ELSE m \div p)

\* new Date(v): a Date copies the time value, text is parsed, anything else
\* goes through ToNumber (arrays and objects print to text first).
NewDate(v) ==
    CASE Kind(v) = "date" -> DateOf(v[2])
      [] Kind(v) \in {"str", "arr", "obj"} -> DateOf(DateParse(ToStringJS(v)))
      [] OTHER -> DateOf(TimeClip(ToNumber(v)))


-----------------------------------------------------------------------------
(* Validators (validators.ts). A PropValidator is a closure; the model keeps *)
(* the factory and the captured arguments:                                  *)
(*   <<"Min", min>>  <<"Max", max>>  <<"MinMax", <<min, max>>>>             *)
(*   <<"StringNotEmpty", options>>, options the record [given, trim, max,   *)
(*       min]: given is FALSE when no options object was passed, and a      *)
(*       member that was not passed is Undefined                            *)
(*   <<"ArrayNotEmpty", 0>>                                                 *)
(*   <<"EnumValueExist", enumDefine>>                                       *)
(*   <<"NotBefore", other>>: a validator written by the caller, which      *)
(*       compares the value with the property other of the record           *)
(* Applying one yields [err |-> the returned reason, "" for undefined,      *)
(*                      obj |-> the record after the validator's writes].   *)

NewValidatorMin(min) == <<"Min", min>>
NewValidatorMax(max) == <<"Max", max>>
NewValidatorMinMax(min, max) == <<"MinMax", <<min, max>>>>
NewValidatorStringNotEmpty(options) == <<"StringNotEmpty", options>>
NewValidatorArrayNotEmpty == <<"ArrayNotEmpty", 0>>
\* a validator the caller wrote: (val, name, obj) => val >= obj[other] ? undefined : reason
CustomNotBefore(other) == <<"NotBefore", other>>

\* An enum as the TypeScript compiler emits it: an object with, per member,
\* the entry name -> value and, for a numeric value only, the reverse entry
\* text of the value -> name. It is kept as the sequence of assignments
\* <<key, value>>, keys being texts; EnumMember(name, value) is one member.
EnumMember(name, value) == <<name, value>>

RECURSIVE CompiledEnum(_)
CompiledEnum(members) ==
    IF members = <<>> THEN <<>>
    ELSE LET m == Head(members)
         IN  <<<<m[1], m[2]>>>>
             \o (IF Kind(m[2]) = "num"
                 THEN <<<<NumberText(m[2]), Str(m[1])>>>>
                 ELSE <<>>)
             \o CompiledEnum(Tail(members))

\* Some of the members every object inherits from Object.prototype.
ObjectPrototypeKeys ==
    { <<"c", "o", "n", "s", "t", "r", "u", "c", "t", "o", "r">>,
      <<"t", "o", "S", "t", "r", "i", "n", "g">>,
      <<"v", "a", "l", "u", "e", "O", "f">> }

\* enumDefine[val]: the key is ToPropertyKey(val), the last assignment to it
\* wins, and a key the object does not own is looked up in Object.prototype.
EnumProperty(enumDefine, val) ==
    LET key == ToStringJS(val)
        own == {i \in 1..Len(enumDefine) : enumDefine[i][1] = key}
    IN  IF own # {} THEN enumDefine[CHOOSE i \in own : \A j \in own : j <= i][2]
        ELSE IF key \in ObjectPrototypeKeys THEN <<"fn", key>>
        ELSE Undefined

NewValidatorEnumValueExist(enumDefine) == <<"EnumValueExist", enumDefine>>

ValidateEnumValueExist(enumDefine, val, name, obj) ==
    [err |-> IF ~IsNullish(EnumProperty(enumDefine, val)) THEN ""
             ELSE "expect val exist in enum",
     obj |-> obj]

ValidateMin(min, val, name, obj) ==
    [err |-> IF JsGeq(val, min) THEN "" ELSE "expect val >= min", obj |-> obj]

ValidateMax(max, val, name, obj) ==
    [err |-> IF JsLeq(val, max) THEN "" ELSE "expect val <= max", obj |-> obj]

ValidateMinMax(min, max, val, name, obj) ==
    [err |-> IF JsLeq(min, val) /\ JsLeq(val, max) THEN "" ELSE "expect min <= val <= max",
     obj |-> obj]

\* the checks of the string validator on val, after the optional trim
StringLengthError(options, val) ==
    IF options.given /\ Truthy(options.max) /\ Truthy(val) /\ JsGt(LengthOf(val), options.max)
    THEN "expect string length <= max"
    ELSE IF options.given /\ Truthy(options.min) /\ Truthy(val)
            /\ JsLt(LengthOf(val), options.min)
    THEN "expect string length >= min"
    ELSE IF Truthy(val) /\ JsGt(LengthOf(val), IntNum(0)) THEN ""
    ELSE "expect string length > 0"

\* val = ('' + val).trim(); obj[name] = val
TrimmedAndStored(options, val, name, obj) ==
    [err |-> StringLengthError(options, val), obj |-> Put(obj, name, val)]

ValidateStringNotEmpty(options, val, name, obj) ==
    IF options.given /\ Truthy(options.trim)
    THEN TrimmedAndStored(options, Str(Trim(ToStringJS(val))), name, obj)
    ELSE [err |-> StringLengthError(options, val), obj |-> obj]

ValidateArrayNotEmpty(val, name, obj) ==
    [err |-> IF Truthy(val) /\ JsGt(LengthOf(val), IntNum(0)) THEN ""
             ELSE "expect Array.length > 0",
     obj |-> obj]

ValidateNotBefore(other, val, name, obj) ==
    [err |-> IF JsGeq(val, Get(obj, other)) THEN "" ELSE "expect val >= other", obj |-> obj]

\* validator(val, name, obj)
ApplyValidator(validator, val, name, obj) ==
    CASE validator[1] = "Min" -> ValidateMin(validator[2], val, name, obj)
      [] validator[1] = "Max" -> ValidateMax(validator[2], val, name, obj)
      [] validator[1] = "MinMax" ->
            ValidateMinMax(validator[2][1], validator[2][2], val, name, obj)
      [] validator[1] = "StringNotEmpty" -> ValidateStringNotEmpty(validator[2], val, name, obj)
      [] validator[1] = "ArrayNotEmpty" -> ValidateArrayNotEmpty(val, name, obj)
      [] validator[1] = "NotBefore" -> ValidateNotBefore(validator[2], val, name, obj)
      [] validator[1] = "EnumValueExist" ->
            ValidateEnumValueExist(validator[2], val, name, obj)

-----------------------------------------------------------------------------
(* Conversion (converters.ts) *)

NoClass == "Function.prototype"

\* a check that cuts the fraction off instead of failing
IntegerOrThrow_Truncates(parsed) ==
    IF Kind(parsed) = "nan" THEN Throw("Int", "", "", "")
    ELSE Ok(IntNum(parsed[2][1] \div Pow10(parsed[2][2])))

\* the check of convertToInt on the parsed number
IntegerOrThrow(parsed) ==
    IF Kind(parsed) = "nan" \/ HasFraction(parsed) THEN Throw("Int", "", "", "") ELSE Ok(parsed)

\* a conversion that takes numbers only and parses no text
convertToInt_NumbersOnly(val) ==
    IF TypeOf(val) = "number" THEN IntegerOrThrow(val) ELSE Throw("Int", "", "", "")

convertToInt(val) == IntegerOrThrow(IF TypeOf(val) = "number" THEN val ELSE ParseFloat(val))

\* the check of convertToFloat on the parsed number
NumberOrThrow(parsed) ==
    IF Kind(parsed) = "nan" THEN Throw("Float", "", "", "") ELSE Ok(parsed)

convertToFloat(val) == NumberOrThrow(IF TypeOf(val) = "number" THEN val ELSE ParseFloat(val))

convertToString(val) ==
    IF val = Str(Lit_string) THEN Ok(val)
    ELSE IF val = Str(Lit_number) THEN Ok(Str(ToStringJS(val)))
    ELSE Throw("String", "", "", "")

convertToBoolean(val) ==
    IF val = Str(Lit_boolean) THEN Ok(val)
    ELSE IF val = Str(Lit_true) THEN Ok(Bool(TRUE))
    ELSE IF val = Str(Lit_false) THEN Ok(Bool(FALSE))
    ELSE Throw("Boolean", "", "", "")

\* the check of convertToDate on the parsed Date
ValidDateOrThrow(parsed) ==
    IF Kind(parsed[2]) = "nan" THEN Throw("Date", "", "", "") ELSE Ok(parsed)

convertToDate(val) == ValidDateOrThrow(NewDate(val))

convertToObject(val) ==
    IF val # Str(Lit_object) THEN Throw("Object", "", "", "") ELSE Ok(val)

\* val[name] for any value: only objects of the model carry named properties
GetProp(val, name) == IF Kind(val) = "obj" THEN Get(val, name) ELSE Undefined

RECURSIVE convertToType(_, _)
RECURSIVE convertElements(_, _, _, _)
RECURSIVE convertProps(_, _, _, _, _)
RECURSIVE runValidators(_, _, _, _, _, _)
RECURSIVE validateProps(_, _, _, _)

\* a loop that puts each converted element in front of the earlier ones
elementConverted_Prepends(val, elementType, i, parsed, r) ==
    IF IsThrow(r) THEN r
    ELSE After(LogOf(r),
               convertElements(val, elementType, i + 1, <<ValueOf(r)>> \o parsed))

\* parsed[i] = convertToType(val[i], elementType), r its outcome, and the rest
\* of the loop
elementConverted(val, elementType, i, parsed, r) ==
    IF IsThrow(r) THEN r
    ELSE After(LogOf(r), convertElements(val, elementType, i + 1, Append(parsed, ValueOf(r))))

\* the loop of convertToArray from index i on, parsed holding the elements so far
convertElements(val, elementType, i, parsed) ==
    IF i > Len(val[2]) THEN Ok(Arr(parsed))
    ELSE elementConverted(val, elementType, i, parsed, convertToType(val[2][i], elementType))

convertToArray(val, toType) ==
    IF toType[2] = <<>> THEN Throw("ArrayElementType", "", "", "")
    ELSE IF Kind(val) # "arr" THEN Throw("ArrayVal", "", "", "")
    ELSE convertElements(val, toType[2][1], 1, <<>>)

\* a loop that leaves out a property whose conversion failed and goes on
propConverted_SkipsFailure(val, classType, metadata, i, parsed, r) ==
    IF IsThrow(r) THEN convertProps(val, classType, metadata, i + 1, parsed)
    ELSE After(LogOf(r) \o <<SetEvent(classType, metadata[i].name, ValueOf(r))>>,
               convertProps(val, classType, metadata, i + 1,
                            Put(parsed, metadata[i].name, ValueOf(r))))

\* parsed[propMetadata.name] = convertToType(propValue, propMetadata.type), r
\* its outcome, and the rest of the loop
propConverted(val, classType, metadata, i, parsed, r) ==
    IF IsThrow(r) THEN r
    ELSE After(LogOf(r) \o <<SetEvent(classType, metadata[i].name, ValueOf(r))>>,
               convertProps(val, classType, metadata, i + 1,
                            Put(parsed, metadata[i].name, ValueOf(r))))

\* `if (propValue == undefined)` on the input's value of the property: the
\* default applies to undefined and to null
needsDefault_Strict(given) == given = Undefined

needsDefault(given) == IsNullish(given)

\* `if (propValue === undefined) continue` on the value after the default
skipsProp_Never(propValue) == FALSE

skipsProp(propValue) == propValue = Undefined

\* one round of the loop of Step2, given the input's value of the property
\* and the value after the default was applied
propSupplied(val, classType, metadata, i, parsed, given, propValue) ==
    IF needsDefault(given) /\ IsNullish(propValue) /\ metadata[i].isOptional = FALSE
    THEN Throw("missing", classType, metadata[i].name, "")
    ELSE IF needsDefault(given) /\ IsNullish(propValue) /\ skipsProp(propValue)
    THEN convertProps(val, classType, metadata, i + 1, parsed)
    ELSE propConverted(val, classType, metadata, i, parsed,
                       convertToType(propValue, metadata[i].type))

\* propValue after `if (propValue == undefined) propValue = propMetadata.default`
propValueOrDefault(given, propMetadata) ==
    IF needsDefault(given) THEN propMetadata.default ELSE given

\* a Step2 that ends by copying the input's other properties to the record
convertProps_KeepsExtras(val, classType, metadata, i, parsed) ==
    IF i > Len(metadata)
    THEN Ok(<<"obj", [proto |-> classType,
                      props |-> [n \in PropNames |->
                                    IF MapHas(metadata, n) THEN Get(parsed, n)
                                    ELSE GetProp(val, n)]]>>)
    ELSE propSupplied(val, classType, metadata, i, parsed,
                      GetProp(val, metadata[i].name),
                      propValueOrDefault(GetProp(val, metadata[i].name), metadata[i]))

\* Step2 of convertToClass from the i-th entry of the metadata map on
convertProps(val, classType, metadata, i, parsed) ==
    IF i > Len(metadata) THEN Ok(parsed)
    ELSE propSupplied(val, classType, metadata, i, parsed,
                      GetProp(val, metadata[i].name),
                      propValueOrDefault(GetProp(val, metadata[i].name), metadata[i]))

\* a loop that goes on after a reason and fails on the last validator only
validatorReturned_KeepsGoing(classType, propName, validators, j, propValue, out) ==
    After(<<ValidateEvent(classType, propName, propValue, validators[j])>>,
          IF out.err # "" /\ j = Len(validators)
          THEN Throw("validation", classType, propName, out.err)
          ELSE runValidators(classType, propName, validators, j + 1, propValue, out.obj))

\* the j-th validator returned out: throw on a reason, else go on with the next
validatorReturned(classType, propName, validators, j, propValue, out) ==
    After(<<ValidateEvent(classType, propName, propValue, validators[j])>>,
          IF out.err # "" THEN Throw("validation", classType, propName, out.err)
          ELSE runValidators(classType, propName, validators, j + 1, propValue, out.obj))

\* validators that are handed an empty record instead of the populated one
runValidators_NoRecord(classType, propName, validators, j, propValue, parsed) ==
    IF j > Len(validators) THEN Ok(parsed)
    ELSE validatorReturned(classType, propName, validators, j, propValue,
                           [err |-> ApplyValidator(validators[j], propValue, propName,
                                                   Obj(classType, <<>>)).err,
                            obj |-> parsed])

\* the validators of one property from the j-th on; every one receives the
\* propValue read before the first ran, and the record as it is now
runValidators(classType, propName, validators, j, propValue, parsed) ==
    IF j > Len(validators) THEN Ok(parsed)
    ELSE validatorReturned(classType, propName, validators, j, propValue,
                           ApplyValidator(validators[j], propValue, propName, parsed))

\* the validators of the i-th key ended with r: go on with the next key
propValidated(classType, validatorMap, i, r) ==
    IF IsThrow(r) THEN r
    ELSE After(LogOf(r), validateProps(classType, validatorMap, i + 1, ValueOf(r)))

\* a Step3 loop that also leaves out the properties whose value is null
validateProps_SkipsNull(classType, validatorMap, i, parsed) ==
    IF i > Len(validatorMap) THEN Ok(parsed)
    ELSE IF IsNullish(Get(parsed, validatorMap[i].name))
    THEN validateProps(classType, validatorMap, i + 1, parsed)
    ELSE propValidated(classType, validatorMap, i,
                       runValidators(classType, validatorMap[i].name,
                                     validatorMap[i].validators, 1,
                                     Get(parsed, validatorMap[i].name), parsed))

\* Step3 of convertToClass from the i-th key of the validator map on
validateProps(classType, validatorMap, i, parsed) ==
    IF i > Len(validatorMap) THEN Ok(parsed)
    ELSE IF Get(parsed, validatorMap[i].name) = Undefined
    THEN validateProps(classType, validatorMap, i + 1, parsed)
    ELSE propValidated(classType, validatorMap, i,
                       runValidators(classType, validatorMap[i].name,
                                     validatorMap[i].validators, 1,
                                     Get(parsed, validatorMap[i].name), parsed))

\* a Step3 that goes through the keys of the validator map from the last
validateStep_LastKeyFirst(classType, step2) ==
    IF IsThrow(step2) THEN step2
    ELSE IF classType \in DOMAIN classTypeToPropValidator
    THEN After(LogOf(step2),
               validateProps(classType,
                             [i \in 1..Len(classTypeToPropValidator[classType]) |->
                                 classTypeToPropValidator[classType]
                                     [Len(classTypeToPropValidator[classType]) + 1 - i]],
                             1, ValueOf(step2)))
    ELSE step2

\* Step3 of convertToClass on the outcome of Step2
validateStep(classType, step2) ==
    IF IsThrow(step2) THEN step2
    ELSE IF classType \in DOMAIN classTypeToPropValidator
    THEN After(LogOf(step2),
               validateProps(classType, classTypeToPropValidator[classType], 1, ValueOf(step2)))
    ELSE step2

\* a conversion without the null case: reading a property of null throws
convertToClass_NoNullCase(val, classType) ==
    IF TypeOf(val) # "object" THEN Throw("ClassVal", classType, "", "")
    ELSE IF val = Null /\ classType \in DOMAIN classTypeToPropMetadata
                      /\ classTypeToPropMetadata[classType] # <<>>
    THEN Throw("TypeError", "", "", "")
    ELSE validateStep(classType,
                      IF classType \in DOMAIN classTypeToPropMetadata
                      THEN convertProps(val, classType, classTypeToPropMetadata[classType], 1,
                                        Obj(classType, <<>>))
                      ELSE Ok(Obj(classType, <<>>)))

\* a conversion that refuses an input with a property the class does not declare
convertToClass_RejectsExtras(val, classType) ==
    IF TypeOf(val) # "object" THEN Throw("ClassVal", classType, "", "")
    ELSE IF val = Null THEN Ok(Null)
    ELSE IF \E n \in PropNames :
                /\ HasProp(val, n)
                /\ ~(/\ classType \in DOMAIN classTypeToPropMetadata
                     /\ MapHas(classTypeToPropMetadata[classType], n))
    THEN Throw("ClassVal", classType, "", "")
    ELSE validateStep(classType,
                      IF classType \in DOMAIN classTypeToPropMetadata
                      THEN convertProps(val, classType, classTypeToPropMetadata[classType], 1,
                                        Obj(classType, <<>>))
                      ELSE Ok(Obj(classType, <<>>)))

convertToClass(val, classType) ==
    IF TypeOf(val) # "object" THEN Throw("ClassVal", classType, "", "")
    ELSE IF val = Null THEN Ok(Null)
    ELSE validateStep(classType,
                      IF classType \in DOMAIN classTypeToPropMetadata
                      THEN convertProps(val, classType, classTypeToPropMetadata[classType], 1,
                                        Obj(classType, <<>>))
                      ELSE Ok(Obj(classType, <<>>)))

\* the double check after conversion: parsed must not be undefined
definedOrThrow(parsed) ==
    IF IsOk(parsed) /\ ValueOf(parsed) = Undefined
    THEN After(LogOf(parsed), Throw("undefinedResult", "", "", ""))
    ELSE parsed

\* a dispatch that converts to every class, registered with @Class or not
convertToType_AnyClass(val, toType) ==
    definedOrThrow(
        CASE toType = TInt -> convertToInt(val)
          [] toType = TFloat -> convertToFloat(val)
          [] toType = TString -> convertToString(val)
          [] toType = TBoolean -> convertToBoolean(val)
          [] toType = TDate -> convertToDate(val)
          [] toType = TObject -> convertToObject(val)
          [] OTHER ->
                IF toType[1] = "Array" THEN convertToArray(val, toType)
                ELSE IF toType[1] = "Class" THEN convertToClass(val, toType[2])
                ELSE Throw("unsupported", "", "", ""))

convertToType(val, toType) ==
    definedOrThrow(
        CASE toType = TInt -> convertToInt(val)
          [] toType = TFloat -> convertToFloat(val)
          [] toType = TString -> convertToString(val)
          [] toType = TBoolean -> convertToBoolean(val)
          [] toType = TDate -> convertToDate(val)
          [] toType = TObject -> convertToObject(val)
          [] OTHER ->
                IF toType[1] = "Array" THEN convertToArray(val, toType)
                ELSE IF toType[1] = "Class" /\ toType[2] \in classSet
                THEN convertToClass(val, toType[2])
                ELSE Throw("unsupported", "", "", ""))

-----------------------------------------------------------------------------
(* The call stack. convertToType calls itself for every element of an array *)
(* (convertToArray) and for every property it converts (convertToClass);   *)
(* the engine ends a call chain deeper than its stack with a RangeError.    *)

\* The number of nested convertToType frames the stack holds.
MaxFrames == 8

Max2(a, b) == IF a >= b THEN a ELSE b

RECURSIVE FrameDepth(_, _, _)
RECURSIVE ElementsDepth(_, _, _, _)
RECURSIVE PropsDepth(_, _, _, _)

\* The call for element i went d frames deep: the loop goes on to the next
\* element only when that call returned.
ElementDepth(val, elementType, i, limit, d) ==
    IF d >= limit THEN d
    ELSE IF IsThrow(convertToType(val[2][i], elementType)) THEN d
    ELSE Max2(d, ElementsDepth(val, elementType, i + 1, limit))

\* The deepest call chain of the loop of convertToArray from index i on.
ElementsDepth(val, elementType, i, limit) ==
    IF i > Len(val[2]) THEN 0
    ELSE ElementDepth(val, elementType, i, limit,
                      FrameDepth(val[2][i], elementType, limit))

\* The call for the i-th property went d frames deep: the loop goes on to
\* the next property only when that call returned.
PropDepth(val, metadata, i, limit, propValue, d) ==
    IF d >= limit THEN d
    ELSE IF IsThrow(convertToType(propValue, metadata[i].type)) THEN d
    ELSE Max2(d, PropsDepth(val, metadata, i + 1, limit))

\* One round of the loop of Step2: no call for a property that is missing
\* or skipped.
PropSuppliedDepth(val, metadata, i, limit, given, propValue) ==
    IF needsDefault(given) /\ IsNullish(propValue) /\ metadata[i].isOptional = FALSE
    THEN 0
    ELSE IF needsDefault(given) /\ IsNullish(propValue) /\ skipsProp(propValue)
    THEN PropsDepth(val, metadata, i + 1, limit)
    ELSE PropDepth(val, metadata, i, limit, propValue,
                   FrameDepth(propValue, metadata[i].type, limit))

\* The deepest call chain of Step2 of convertToClass from the i-th entry on.
PropsDepth(val, metadata, i, limit) ==
    IF i > Len(metadata) THEN 0
    ELSE PropSuppliedDepth(val, metadata, i, limit,
                           GetProp(val, metadata[i].name),
                           propValueOrDefault(GetProp(val, metadata[i].name), metadata[i]))

\* The number of frames of the deepest chain of nested convertToType calls
\* that convertToType(val, toType) makes, itself included, counted up to
\* limit.
FrameDepth(val, toType, limit) ==
    IF limit = 0 THEN 0
    ELSE 1 + (CASE toType[1] = "Array" /\ toType[2] # <<>> /\ Kind(val) = "arr" ->
                      ElementsDepth(val, toType[2][1], 1, limit - 1)
                [] toType[1] = "Class" /\ toType[2] \in classSet
                   /\ TypeOf(val) = "object" /\ val # Null
                   /\ toType[2] \in DOMAIN classTypeToPropMetadata ->
                      PropsDepth(val, classTypeToPropMetadata[toType[2]], 1, limit - 1)
                [] OTHER -> 0)

\* The call chain of convertToType(val, toType) does not fit the stack.
ExhaustsStack(val, toType) == FrameDepth(val, toType, MaxFrames + 1) > MaxFrames

\* convertToType(val, toType) on the engine's stack
ConvertOnStack(val, toType) ==
    /\ defining = NoClass
    /\ ~declFailed
    /\ call' = [val |-> val, toType |-> toType,
                outcome |-> IF ExhaustsStack(val, toType)
                            THEN Throw("RangeError", "", "", "")
                            ELSE convertToType(val, toType),
                made |-> TRUE]
    /\ UNCHANGED <<classSet, classTypeToPropMetadata, classTypeToPropValidator,
                   defining, defined, declared, declFailed>>

-----------------------------------------------------------------------------
(* Decorators (decorators.ts) *)

\* The classes of the program and the class each extends: C extends B extends A.
Classes == {"A", "B", "C"}

ParentOf(c) ==
    CASE c = "B" -> "A"
      [] c = "C" -> "B"
      [] OTHER -> NoClass

\* options.validate: absent, one validator, or an array of validators
NoValidate == <<"none", <<>>>>
OneValidator(v) == <<"one", v>>
ManyValidators(vs) == <<"many", vs>>

PropOptions(type, isOptional, default, validate) ==
    [type |-> type, isOptional |-> isOptional, default |-> default, validate |-> validate]

getOrCreateMetadataMap(clsCtor) ==
    IF clsCtor \in DOMAIN classTypeToPropMetadata THEN classTypeToPropMetadata
    ELSE OuterSet(classTypeToPropMetadata, clsCtor, <<>>)

getOrCreateValidatorMap(clsCtor) ==
    IF clsCtor \in DOMAIN classTypeToPropValidator THEN classTypeToPropValidator
    ELSE OuterSet(classTypeToPropValidator, clsCtor, <<>>)

\* the check that opens the property decorator
MalformedArrayType(type) == type[1] = "Array" /\ Len(type[2]) # 1

\* metadata that keeps isOptional as it was passed, whatever the default
PropMetadataOf_AsDeclared(propName, options) ==
    [name |-> propName,
     type |-> options.type,
     isOptional |-> options.isOptional = Bool(TRUE),
     default |-> options.default]

\* currentMetadata of the property decorator
PropMetadataOf(propName, options) ==
    [name |-> propName,
     type |-> options.type,
     isOptional |-> IF options.default # Undefined THEN TRUE
                    ELSE options.isOptional = Bool(TRUE),
     default |-> options.default]

\* propValidators of the property decorator
PropValidatorsOf(options) ==
    CASE options.validate[1] = "one" -> <<options.validate[2]>>
      [] options.validate[1] = "many" -> options.validate[2]
      [] OTHER -> <<>>

\* the metadata store after the property decorator registered the metadata
MetadataAfterProp(clsCtor, propName, options) ==
    LET store == getOrCreateMetadataMap(clsCtor)
    IN  [store EXCEPT ![clsCtor] = MapSet(@, PropMetadataOf(propName, options))]

\* a registration that empties the class's validator map when the member
\* carries no validator
ValidatorsAfterProp_ClearsAll(clsCtor, propName, options) ==
    LET store == getOrCreateValidatorMap(clsCtor)
        propValidators == PropValidatorsOf(options)
    IN  IF Len(propValidators) > 0
        THEN [store EXCEPT ![clsCtor] =
                  MapSet(@, [name |-> propName, validators |-> propValidators])]
        ELSE [store EXCEPT ![clsCtor] = <<>>]

\* the validator store after the property decorator registered the validators
ValidatorsAfterProp(clsCtor, propName, options) ==
    LET store == getOrCreateValidatorMap(clsCtor)
        propValidators == PropValidatorsOf(options)
    IN  IF Len(propValidators) > 0
        THEN [store EXCEPT ![clsCtor] =
                  MapSet(@, [name |-> propName, validators |-> propValidators])]
        ELSE [store EXCEPT ![clsCtor] = MapDelete(@, propName)]

\* the entries of the parent's map the class has no entry for, in the parent's order
RECURSIVE InheritFrom(_, _, _)
InheritFrom(parentMap, i, current) ==
    IF i > Len(parentMap) THEN current
    ELSE InheritFrom(parentMap, i + 1,
                     IF MapHas(current, parentMap[i].name) THEN current
                     ELSE MapSet(current, parentMap[i]))

\* a merge in which the parent's entry replaces the child's for a shared name
MetadataAfterClass_ParentWins(clsCtor) ==
    LET parentCtor == ParentOf(clsCtor)
    IN  IF parentCtor \in DOMAIN classTypeToPropMetadata
        THEN LET store == getOrCreateMetadataMap(clsCtor)
             IN  [store EXCEPT ![clsCtor] =
                      InheritFrom(@, 1, classTypeToPropMetadata[parentCtor])]
        ELSE classTypeToPropMetadata

\* a merge that copies only the entries the parent declared itself
MetadataAfterClass_ParentOwnOnly(clsCtor) ==
    LET parentCtor == ParentOf(clsCtor)
    IN  IF parentCtor \in DOMAIN classTypeToPropMetadata
        THEN LET store == getOrCreateMetadataMap(clsCtor)
                 parentMap == classTypeToPropMetadata[parentCtor]
                 own == {k \in 1..Len(declared) : declared[k].cls = parentCtor}
             IN  [store EXCEPT ![clsCtor] =
                      InheritFrom(SelectSeq(parentMap,
                                            LAMBDA e : \E k \in own : declared[k].name = e.name),
                                  1, @)]
        ELSE classTypeToPropMetadata

\* the metadata store after the class decorator merged the parent's properties
MetadataAfterClass(clsCtor) ==
    LET parentCtor == ParentOf(clsCtor)
    IN  IF parentCtor \in DOMAIN classTypeToPropMetadata
        THEN LET store == getOrCreateMetadataMap(clsCtor)
             IN  [store EXCEPT ![clsCtor] =
                      InheritFrom(classTypeToPropMetadata[parentCtor], 1, @)]
        ELSE classTypeToPropMetadata

\* a merge in which the parent's validators are put before the child's own
ValidatorsAfterClass_Combined(clsCtor) ==
    LET parentCtor == ParentOf(clsCtor)
    IN  IF parentCtor \in DOMAIN classTypeToPropValidator
        THEN LET store == getOrCreateValidatorMap(clsCtor)
                 parentMap == classTypeToPropValidator[parentCtor]
                 merged == InheritFrom(parentMap, 1, store[clsCtor])
             IN  [store EXCEPT ![clsCtor] =
                      [i \in 1..Len(merged) |->
                          IF MapHas(@, merged[i].name) /\ MapHas(parentMap, merged[i].name)
                          THEN [name |-> merged[i].name,
                                validators |-> MapGet(parentMap, merged[i].name).validators
                                               \o merged[i].validators]
                          ELSE merged[i]]]
        ELSE classTypeToPropValidator

\* the validator store after the class decorator merged the parent's validators
ValidatorsAfterClass(clsCtor) ==
    LET parentCtor == ParentOf(clsCtor)
    IN  IF parentCtor \in DOMAIN classTypeToPropValidator
        THEN LET store == getOrCreateValidatorMap(clsCtor)
             IN  [store EXCEPT ![clsCtor] =
                      InheritFrom(classTypeToPropValidator[parentCtor], 1, @)]
        ELSE classTypeToPropValidator

-----------------------------------------------------------------------------
(* The program: class definitions are evaluated one at a time, a parent     *)
(* before the classes that extend it; evaluating one applies the @Prop      *)
(* decorators of its members and then, if the class carries it, @Class.     *)
(* convertToType is called between class definitions.                      *)

\* The most @Prop applications over all class definitions.
MaxProps == 3

NoCall == [val |-> Undefined, toType |-> TInt, outcome |-> Ok(Undefined), made |-> FALSE]

Init ==
    /\ classSet = {}
    /\ classTypeToPropMetadata = <<>>
    /\ classTypeToPropValidator = <<>>
    /\ defining = NoClass
    /\ defined = {}
    /\ declared = <<>>
    /\ declFailed = FALSE
    /\ call = NoCall

\* The members of class c that carry @Prop, in the order of the class body.
RECURSIVE OwnDeclarations(_, _)
OwnDeclarations(c, decls) ==
    IF decls = <<>> THEN <<>>
    ELSE (IF Head(decls).cls = c THEN <<Head(decls)>> ELSE <<>>)
         \o OwnDeclarations(c, Tail(decls))

OwnProps(c) == {declared[i].name : i \in {k \in 1..Len(declared) : declared[k].cls = c}}

\* evaluation of `class clsCtor extends ParentOf(clsCtor)` starts
BeginClass(clsCtor) ==
    /\ defining = NoClass
    /\ ~declFailed
    /\ clsCtor \notin defined
    /\ ParentOf(clsCtor) = NoClass \/ ParentOf(clsCtor) \in defined
    /\ defining' = clsCtor
    /\ UNCHANGED <<classSet, classTypeToPropMetadata, classTypeToPropValidator,
                   defined, declared, declFailed, call>>

\* @Prop(options) on member propName of the class being defined
Prop(propName, options) ==
    /\ defining # NoClass
    /\ Len(declared) < MaxProps
    /\ propName \notin OwnProps(defining)
    /\ IF MalformedArrayType(options.type)
       THEN /\ declFailed' = TRUE
            /\ defining' = NoClass
            /\ UNCHANGED <<classTypeToPropMetadata, classTypeToPropValidator, declared>>
       ELSE /\ classTypeToPropMetadata' = MetadataAfterProp(defining, propName, options)
            /\ classTypeToPropValidator' = ValidatorsAfterProp(defining, propName, options)
            /\ declared' = Append(declared,
                                  [cls |-> defining, name |-> propName, options |-> options])
            /\ UNCHANGED <<declFailed, defining>>
    /\ UNCHANGED <<classSet, defined, call>>

\* @Prop(options) stacked on a member of the class being defined that already
\* carries @Prop: the decorators of one member are applied one after another
PropAgain(propName, options) ==
    /\ defining # NoClass
    /\ Len(declared) < MaxProps
    /\ propName \in OwnProps(defining)
    /\ IF MalformedArrayType(options.type)
       THEN /\ declFailed' = TRUE
            /\ defining' = NoClass
            /\ UNCHANGED <<classTypeToPropMetadata, classTypeToPropValidator, declared>>
       ELSE /\ classTypeToPropMetadata' = MetadataAfterProp(defining, propName, options)
            /\ classTypeToPropValidator' = ValidatorsAfterProp(defining, propName, options)
            /\ declared' = Append(declared,
                                  [cls |-> defining, name |-> propName, options |-> options])
            /\ UNCHANGED <<declFailed, defining>>
    /\ UNCHANGED <<classSet, defined, call>>

\* @Class() on the class being defined, which ends its definition
Class ==
    /\ defining # NoClass
    /\ classTypeToPropMetadata' = MetadataAfterClass(defining)
    /\ classTypeToPropValidator' = ValidatorsAfterClass(defining)
    /\ classSet' = classSet \cup {defining}
    /\ defined' = defined \cup {defining}
    /\ defining' = NoClass
    /\ UNCHANGED <<declared, declFailed, call>>

\* the definition of a class that carries no @Class ends
EndClass ==
    /\ defining # NoClass
    /\ defined' = defined \cup {defining}
    /\ defining' = NoClass
    /\ UNCHANGED <<classSet, classTypeToPropMetadata, classTypeToPropValidator,
                   declared, declFailed, call>>

\* convertToType(val, toType)
Convert(val, toType) ==
    /\ defining = NoClass
    /\ ~declFailed
    /\ call' = [val |-> val, toType |-> toType, outcome |-> convertToType(val, toType),
                made |-> TRUE]
    /\ UNCHANGED <<classSet, classTypeToPropMetadata, classTypeToPropValidator,
                   defining, defined, declared, declFailed>>

\* validator(val, name, obj) called on its own; call then holds the call's
\* arguments and the reason it returned, "" for undefined
Validate(validator, val, name, obj) ==
    /\ call' = [val |-> val, validator |-> validator, name |-> name, obj |-> obj,
                returned |-> ApplyValidator(validator, val, name, obj).err, made |-> TRUE]
    /\ UNCHANGED <<classSet, classTypeToPropMetadata, classTypeToPropValidator,
                   defining, defined, declared, declFailed>>

-----------------------------------------------------------------------------
(* The inheritance program: classes A, B extends A, C extends B, each with  *)
(* up to MaxProps decorated members in all, converted from a few inputs.    *)

ChainNames == {"x", "y"}

ChainOptions ==
    { PropOptions(TInt, Undefined, Undefined, OneValidator(NewValidatorMin(IntNum(1)))),
      PropOptions(TInt, Bool(TRUE), Undefined, NoValidate),
      PropOptions(TFloat, Undefined, IntNum(2),
                  ManyValidators(<<NewValidatorMin(IntNum(1)), NewValidatorMax(IntNum(3))>>)) }

ChainInputs ==
    { Plain([x |-> IntNum(0)]),
      Plain([x |-> IntNum(2), y |-> IntNum(5)]) }

ChainTypes == {TClass(c) : c \in Classes}

\* Every class definition of a program with the given classes has been evaluated.
Loaded(classes) == defined = classes /\ defining = NoClass

\* convertToType called once the program is loaded
ConvertLoaded(val, toType) == Loaded(Classes) /\ Convert(val, toType)

Next ==
    \/ \E c \in Classes : BeginClass(c)
    \/ \E n \in ChainNames, o \in ChainOptions : Prop(n, o)
    \/ Class
    \/ EndClass
    \/ \E v \in ChainInputs, t \in ChainTypes : ConvertLoaded(v, t)

Spec == Init /\ [][Next]_vars

-----------------------------------------------------------------------------
(* The field program: one class A whose members take every combination of   *)
(* type, optionality and default, converted from objects whose properties   *)
(* are absent, null or present.                                             *)

FieldNames == {"x", "y"}

FieldTypes == {TInt, TString, TClass("A")}

\* The default a member of the given type declares when it declares one that
\* is not null.
FieldDefaults(type) ==
    CASE type = TInt -> {IntNum(7)}
      [] type = TString -> {Str(<<>>)}
      [] OTHER -> {}

FieldOptions ==
    UNION { { PropOptions(type, Undefined, Undefined, NoValidate),
              PropOptions(type, Bool(TRUE), Undefined, NoValidate),
              PropOptions(type, Undefined, Null, NoValidate) }
            \cup { PropOptions(type, Undefined, d, NoValidate) : d \in FieldDefaults(type) }
          : type \in FieldTypes }

FieldValues == {Undefined, Null, IntNum(5), Str(Lit_string), Plain(<<>>)}

FieldInputs == {Plain([x |-> vx, y |-> vy]) : vx \in FieldValues, vy \in FieldValues}

\* convertToType(val, A) called once class A is defined
ConvertToA(val) == Loaded({"A"}) /\ Convert(val, TClass("A"))

NextFields ==
    \/ BeginClass("A")
    \/ \E n \in FieldNames, o \in FieldOptions : Prop(n, o)
    \/ Class
    \/ EndClass
    \/ \E v \in FieldInputs : ConvertToA(v)

SpecFields == Init /\ [][NextFields]_vars

-----------------------------------------------------------------------------
(* The primitive conversions: convertToType on every pair of a sample value *)
(* and a type that needs no registered class.                              *)

PrimInputs ==
    { Undefined, Null, Bool(TRUE), Bool(FALSE), NaN,
      IntNum(0), IntNum(1), IntNum(5), IntNum(-3), Num(55, 1), Num(5216, 2),
      Str(<<>>), Str(<<"a", "b", "c">>), Str(<<"5">>), Str(<<"5", ".", "5">>),
      Str(<<" ", "7", " ">>), Str(<<"5", "2", ".", "1", "6">>),
      Str(Lit_true), Str(Lit_false), Str(Lit_string), Str(Lit_number),
      Str(Lit_boolean), Str(Lit_object),
      Str(<<"1", "9", "7", "0", "-", "0", "1", "-", "0", "2">>),
      DateOf(IntNum(MsPerDay)), DateOf(NaN),
      Arr(<<>>), Arr(<<IntNum(1), IntNum(2)>>), Arr(<<Str(<<"1">>), Str(<<"2">>)>>),
      Arr(<<Arr(<<IntNum(1)>>), Arr(<<>>)>>), Arr(<<Null>>),
      Plain(<<>>), Plain([x |-> IntNum(1)]), Plain([x |-> Plain([y |-> Str(<<"a">>)])]) }

PrimTypes ==
    { TInt, TFloat, TString, TBoolean, TDate, TObject,
      TArrayOf(TInt), TArrayOf(TString), TArrayOf(TArrayOf(TInt)), TArrayOf(TObject),
      TArray(<<>>), TClass("A") }

HasDigit(cs) == \E i \in 1..Len(cs) : IsDigit(cs[i])

\* new Date(val) does not depend on the engine: text reaches Date.parse only
\* in an ISO date form or without any digit.
PortableDateInput(val) ==
    Kind(val) \in {"str", "arr", "obj"} =>
        \/ ~HasDigit(ToStringJS(val))
        \/ Kind(DateParse(ToStringJS(val))) = "num"

\* convertToType on a value whose conversion does not depend on the engine
ConvertPortable(val, toType) ==
    /\ toType = TDate => PortableDateInput(val)
    /\ Convert(val, toType)

NextPrim == \E v \in PrimInputs, t \in PrimTypes : ConvertPortable(v, t)

SpecPrim == Init /\ [][NextPrim]_vars

-----------------------------------------------------------------------------
(* The validation program: one class A whose members carry validators, one  *)
(* of them comparing its field with the other field, converted from objects *)
(* whose properties are absent, null or small integers.                     *)

ValidNames == {"x", "y"}

ValidOptions ==
    { PropOptions(TInt, Bool(FALSE), IntNum(2), NoValidate),
      PropOptions(TInt, Bool(FALSE), Undefined, NoValidate),
      PropOptions(TInt, Undefined, Undefined, OneValidator(CustomNotBefore("x"))),
      PropOptions(TInt, Bool(TRUE), Undefined,
                  ManyValidators(<<NewValidatorMin(IntNum(1)),
                                   NewValidatorMinMax(IntNum(2), IntNum(3))>>)),
      PropOptions(TClass("A"), Undefined, Null, OneValidator(NewValidatorMax(IntNum(3)))) }

ValidValues == {Undefined, Null, IntNum(0), IntNum(1), IntNum(2), IntNum(3)}

ValidInputs == {Plain([x |-> vx, y |-> vy]) : vx \in ValidValues, vy \in ValidValues}

NextValid ==
    \/ BeginClass("A")
    \/ \E n \in ValidNames, o \in ValidOptions : Prop(n, o)
    \/ Class
    \/ EndClass
    \/ \E v \in ValidInputs : ConvertToA(v)

SpecValid == Init /\ [][NextValid]_vars

-----------------------------------------------------------------------------
(* The nesting program: one class A whose members are integers, records of  *)
(* class A and arrays of them, converted from nested objects and arrays     *)
(* that carry undeclared properties, and from values that are no objects.   *)

NestNames == {"x", "y"}

NestOptions ==
    { PropOptions(TInt, Undefined, Undefined, OneValidator(NewValidatorMin(IntNum(1)))),
      PropOptions(TInt, Bool(TRUE), Undefined, NoValidate),
      PropOptions(TClass("A"), Bool(TRUE), Undefined, NoValidate),
      PropOptions(TClass("A"), Undefined, Undefined, NoValidate),
      PropOptions(TArrayOf(TClass("A")), Bool(TRUE), Undefined, NoValidate) }

\* Objects without nested values: one that converts, one whose x fails the
\* validator, one that lacks x.
NestLeaves ==
    { Plain([x |-> IntNum(1), z |-> IntNum(9)]),
      Plain([x |-> IntNum(0)]),
      Plain([z |-> IntNum(1)]) }

NestArrays ==
    { Arr(<<>>),
      Arr(<<Plain([x |-> IntNum(1), z |-> IntNum(9)]), Plain([x |-> IntNum(2)])>>),
      Arr(<<Plain([x |-> IntNum(1)]), Plain([x |-> IntNum(0)])>>),
      Arr(<<Plain([x |-> IntNum(1),
                   y |-> Arr(<<Plain([x |-> IntNum(3), z |-> Null])>>)])>>) }

NestInputs ==
    { Undefined, Null, Str(<<"a", "b", "c">>), IntNum(5), Bool(TRUE) }
    \cup NestLeaves \cup NestArrays
    \cup { Plain([x |-> IntNum(1), y |-> v, z |-> IntNum(9)]) : v \in NestLeaves \cup NestArrays }
    \cup { Plain([x |-> IntNum(1), y |-> Plain([x |-> IntNum(2), y |-> v])]) : v \in NestLeaves }
    \cup { Plain([x |-> Plain([x |-> IntNum(1), z |-> IntNum(9)]), y |-> IntNum(2)]) }

NestTypes == {TClass("A"), TArrayOf(TClass("A"))}

\* convertToType called once class A is defined
ConvertNested(val, toType) == Loaded({"A"}) /\ Convert(val, toType)

NextNest ==
    \/ BeginClass("A")
    \/ \E n \in NestNames, o \in NestOptions : Prop(n, o)
    \/ Class
    \/ EndClass
    \/ \E v \in NestInputs, t \in NestTypes : ConvertNested(v, t)

SpecNest == Init /\ [][NextNest]_vars

-----------------------------------------------------------------------------
(* The declaration program: classes A and B extends A whose members carry   *)
(* array types of every shape, well formed or not, at the top or nested; a  *)
(* member may carry more than one @Prop. The classes are then converted to. *)

DeclClasses == {"A", "B"}

DeclNames == {"x", "y"}

DeclOptions ==
    { PropOptions(TInt, Undefined, Undefined, OneValidator(NewValidatorMin(IntNum(1)))),
      PropOptions(TArrayOf(TArrayOf(TInt)), Bool(TRUE), Undefined,
                  OneValidator(NewValidatorArrayNotEmpty)),
      PropOptions(TArray(<<>>), Bool(TRUE), Undefined, NoValidate),
      PropOptions(TArray(<<TInt, TString>>), Bool(TRUE), Undefined, NoValidate),
      PropOptions(TArrayOf(TArray(<<TInt, TString>>)), Bool(TRUE), Undefined, NoValidate) }

DeclInputs ==
    { Plain([x |-> Arr(<<Arr(<<IntNum(1), IntNum(2)>>)>>), y |-> IntNum(1)]),
      Plain([x |-> Arr(<<>>), y |-> Arr(<<IntNum(1)>>)]),
      Plain([x |-> Arr(<<>>), y |-> IntNum(0)]) }

DeclTypes == {TClass(c) : c \in DeclClasses}

\* convertToType called once classes A and B are defined
ConvertDeclared(val, toType) == Loaded(DeclClasses) /\ Convert(val, toType)

NextDecl ==
    \/ \E c \in DeclClasses : BeginClass(c)
    \/ \E n \in DeclNames, o \in DeclOptions : Prop(n, o)
    \/ \E n \in DeclNames, o \in DeclOptions : PropAgain(n, o)
    \/ Class
    \/ EndClass
    \/ \E v \in DeclInputs, t \in DeclTypes : ConvertDeclared(v, t)

SpecDecl == Init /\ [][NextDecl]_vars

-----------------------------------------------------------------------------
(* The trimming program: one class A whose members carry the string         *)
(* validator with trim, alone or followed by another validator, converted   *)
(* from objects whose properties are texts with and without white space     *)
(* around them, or numbers.                                                 *)

\* { trim: true }
TrimOnly == [given |-> TRUE, trim |-> Bool(TRUE), max |-> Undefined, min |-> Undefined]

\* { max: 2 }
MaxTwo == [given |-> TRUE, trim |-> Undefined, max |-> IntNum(2), min |-> Undefined]

TrimNames == {"x", "y"}

TrimOptions ==
    { PropOptions(TString, Undefined, Undefined,
                  OneValidator(NewValidatorStringNotEmpty(TrimOnly))),
      PropOptions(TString, Undefined, Undefined,
                  ManyValidators(<<NewValidatorStringNotEmpty(TrimOnly),
                                   NewValidatorStringNotEmpty(MaxTwo)>>)),
      PropOptions(TInt, Undefined, Undefined,
                  ManyValidators(<<NewValidatorStringNotEmpty(TrimOnly),
                                   NewValidatorMin(IntNum(1))>>)),
      PropOptions(TInt, Bool(TRUE), Undefined, NoValidate) }

TrimValues ==
    { Undefined, IntNum(5), Str(Lit_string),
      Str(<<" ", "a", "b", " ">>), Str(<<"a", "b">>), Str(<<" ", " ">>) }

TrimInputs == {Plain([x |-> vx, y |-> vy]) : vx \in TrimValues, vy \in TrimValues}

NextTrim ==
    \/ BeginClass("A")
    \/ \E n \in TrimNames, o \in TrimOptions : Prop(n, o)
    \/ Class
    \/ EndClass
    \/ \E v \in TrimInputs : ConvertToA(v)

SpecTrim == Init /\ [][NextTrim]_vars

-----------------------------------------------------------------------------
(* The recursion program: one class A with members of its own class and of  *)
(* arrays of its own class, with and without defaults, converted from       *)
(* nested objects on the engine's stack.                                    *)

DepthNames == {"x", "y"}

DepthOptions ==
    { PropOptions(TArrayOf(TClass("A")), Undefined, Arr(<<>>), NoValidate),
      PropOptions(TArrayOf(TClass("A")), Undefined, Arr(<<Plain(<<>>)>>), NoValidate),
      PropOptions(TClass("A"), Bool(TRUE), Undefined, NoValidate),
      PropOptions(TClass("A"), Undefined, Plain(<<>>), NoValidate),
      PropOptions(TInt, Undefined, IntNum(7), NoValidate) }

DepthInputs ==
    { Null, IntNum(5), Arr(<<>>),
      Plain(<<>>),
      Plain([x |-> Plain(<<>>), y |-> IntNum(1)]),
      Plain([x |-> Plain([x |-> Plain([x |-> Plain([y |-> IntNum(1)])])])]),
      Plain([x |-> Arr(<<Plain([x |-> Arr(<<>>)]), Plain([y |-> Arr(<<>>)])>>)]),
      Arr(<<Plain([x |-> Arr(<<Plain([x |-> Arr(<<>>), y |-> Arr(<<>>)])>>)])>>) }

DepthTypes == {TClass("A"), TArrayOf(TClass("A"))}

\* convertToType called once class A is defined
ConvertDeep(val, toType) == Loaded({"A"}) /\ ConvertOnStack(val, toType)

NextDepth ==
    \/ BeginClass("A")
    \/ \E n \in DepthNames, o \in DepthOptions : Prop(n, o)
    \/ Class
    \/ EndClass
    \/ \E v \in DepthInputs, t \in DepthTypes : ConvertDeep(v, t)

SpecDepth == Init /\ [][NextDepth]_vars

-----------------------------------------------------------------------------
(* The enum program: the validators made from the enums Relationship        *)
(* (numeric) and WeaponType (string), each called on values of every kind.  *)

Relationship ==
    CompiledEnum(<<EnumMember(<<"T", "E", "A", "M", "M", "A", "T", "E">>, IntNum(1)),
                   EnumMember(<<"L", "O", "V", "E", "R">>, IntNum(2))>>)

WeaponType ==
    CompiledEnum(<<EnumMember(<<"W", "e", "a", "p", "o", "n">>,
                              Str(<<"W", "e", "a", "p", "o", "n">>)),
                   EnumMember(<<"A", "r", "m", "o", "r">>, Str(<<"A", "r", "m", "o", "r">>)),
                   EnumMember(<<"A", "c", "c", "e", "s", "s", "o", "r", "y">>,
                              Str(<<"A", "c", "c", "e", "s", "s", "o", "r", "y">>))>>)

EnumValidators ==
    {NewValidatorEnumValueExist(Relationship), NewValidatorEnumValueExist(WeaponType)}

EnumTexts ==
    { <<>>, <<"1">>, <<"2">>, <<"3">>, <<"0", "1">>, <<" ", "1">>,
      <<"T", "E", "A", "M", "M", "A", "T", "E">>, <<"L", "O", "V", "E", "R">>,
      <<"l", "o", "v", "e", "r">>, <<"W", "e", "a", "p", "o", "n">>,
      <<"A", "r", "m", "o", "r">>, <<"a", "r", "m", "o", "r">>,
      <<"t", "o", "S", "t", "r", "i", "n", "g">>,
      <<"c", "o", "n", "s", "t", "r", "u", "c", "t", "o", "r">> }

EnumValues ==
    {Undefined, Null, NaN, Bool(TRUE), Plain(<<>>), DateOf(IntNum(1)),
     IntNum(0), IntNum(1), IntNum(2), IntNum(3), IntNum(-1), Num(15, 1),
     Arr(<<>>), Arr(<<IntNum(1)>>), Arr(<<IntNum(3)>>), Arr(<<IntNum(1), IntNum(2)>>),
     Arr(<<Str(<<"L", "O", "V", "E", "R">>)>>)}
    \cup {Str(cs) : cs \in EnumTexts}

EnumNames == {"x", "y"}

\* the records the validated property belongs to, before it is populated
EnumRecords == {Plain(<<>>)}

NextEnum ==
    \E validator \in EnumValidators, v \in EnumValues, n \in EnumNames, obj \in EnumRecords :
        Validate(validator, v, n, Put(obj, n, v))

SpecEnum == Init /\ [][NextEnum]_vars

-----------------------------------------------------------------------------
(* Claims about the primitive conversions (SpecPrim) *)

\* The last call converted to toType.
Called(toType) == call.made /\ call.toType = toType

\* C1: convertToType(v, String) returns v unchanged when v is a string, the
\* decimal text of v when v is a number, and fails for every other input.
C1_StringConversion ==
    Called(TString) =>
        /\ Kind(call.val) = "str" => Returned(call.outcome, call.val)
        /\ TypeOf(call.val) = "number" => Returned(call.outcome, Str(NumberText(call.val)))
        /\ TypeOf(call.val) \notin {"string", "number"} => IsThrow(call.outcome)

\* C2: convertToType(v, Boolean) returns v when v is a boolean, true for the
\* text "true", false for the text "false", and fails for every other input.
C2_BooleanConversion ==
    Called(TBoolean) =>
        /\ Kind(call.val) = "bool" => Returned(call.outcome, call.val)
        /\ call.val = Str(Lit_true) => Returned(call.outcome, Bool(TRUE))
        /\ call.val = Str(Lit_false) => Returned(call.outcome, Bool(FALSE))
        /\ (Kind(call.val) # "bool" /\ call.val \notin {Str(Lit_true), Str(Lit_false)})
              => IsThrow(call.outcome)

\* C3: convertToType(v, Object) returns the very same v when v is a key/value
\* object, and fails when v is a string, a number or a boolean.
C3_ObjectConversion ==
    Called(TObject) =>
        /\ Kind(call.val) = "obj" => Returned(call.outcome, call.val)
        /\ TypeOf(call.val) \in {"string", "number", "boolean"} => IsThrow(call.outcome)

\* C4: for every element type T, convertToType(null, [T]) returns null, and
\* every input that is neither null nor an array fails.
C4_ArrayOfNull ==
    (call.made /\ call.toType[1] = "Array" /\ Len(call.toType[2]) = 1) =>
        /\ call.val = Null => Returned(call.outcome, Null)
        /\ (call.val # Null /\ Kind(call.val) # "arr") => IsThrow(call.outcome)

-----------------------------------------------------------------------------
(* Claims about the population of a record's fields (SpecFields) *)

\* The merged field map of class c, empty when the store has none.
MetadataOf(c) ==
    IF c \in DOMAIN classTypeToPropMetadata THEN classTypeToPropMetadata[c] ELSE <<>>

\* The last call converted an object to the registered class c.
ConvertedObjectTo(c) ==
    call.made /\ call.toType = TClass(c) /\ c \in classSet /\ Kind(call.val) = "obj"

\* The outcome of populating the one field propMetadata of class c from val.
FieldAlone(val, c, propMetadata) == convertProps(val, c, <<propMetadata>>, 1, Obj(c, <<>>))

\* No field before the i-th of class c fails on the input of the last call.
NoEarlierFailure(c, i) ==
    \A j \in 1..(i - 1) : IsOk(FieldAlone(call.val, c, MetadataOf(c)[j]))

\* No field other than the i-th of class c fails on the input of the last call.
NoOtherFailure(c, i) ==
    \A j \in 1..Len(MetadataOf(c)) : j # i => IsOk(FieldAlone(call.val, c, MetadataOf(c)[j]))

NoDefault(propMetadata) == propMetadata.default = Undefined

IsRecordType(type) == type[1] = "Class"

\* C5 as stated: an explicit null for an optional field without default is
\* not skipped but converted: a record-typed field is present with value null
\* and an Int field fails the conversion.
C5_NullIsConverted ==
    ConvertedObjectTo("A") =>
        \A i \in 1..Len(MetadataOf("A")) :
            LET m == MetadataOf("A")[i]
            IN  (Get(call.val, m.name) = Null /\ m.isOptional /\ NoDefault(m)) =>
                    /\ m.type = TInt => IsThrow(call.outcome)
                    /\ (IsRecordType(m.type) /\ IsOk(call.outcome))
                          => Get(ValueOf(call.outcome), m.name) = Null

\* C5 amended: an explicit null for an optional field without default is
\* skipped like an absent input, whatever the type: the output has no such
\* property and the null fails nothing. A field is materialised with null
\* only by a default of null: then a record-typed field is present with value
\* null and an Int field fails the conversion.
C5_NullOptionalIsSkipped ==
    ConvertedObjectTo("A") =>
        \A i \in 1..Len(MetadataOf("A")) :
            LET m == MetadataOf("A")[i]
            IN  /\ (Get(call.val, m.name) = Null /\ m.isOptional /\ NoDefault(m)) =>
                      /\ IsOk(call.outcome) => ~HasProp(ValueOf(call.outcome), m.name)
                      /\ NoOtherFailure("A", i) => IsOk(call.outcome)
                /\ (IsNullish(Get(call.val, m.name)) /\ m.default = Null) =>
                      /\ m.type = TInt => IsThrow(call.outcome)
                      /\ (IsRecordType(m.type) /\ IsOk(call.outcome))
                            => Get(ValueOf(call.outcome), m.name) = Null

\* An Int field and a record field, both optional without default, were given
\* null and the conversion returned a record; and a record field defaulted to
\* null is present with value null.
C5_Witness ==
    /\ ConvertedObjectTo("A")
    /\ IsOk(call.outcome)
    /\ \E i \in 1..Len(MetadataOf("A")) :
          LET m == MetadataOf("A")[i]
          IN  m.type = TInt /\ m.isOptional /\ NoDefault(m) /\ Get(call.val, m.name) = Null
    /\ \E i \in 1..Len(MetadataOf("A")) :
          LET m == MetadataOf("A")[i]
          IN  /\ IsRecordType(m.type) /\ m.default = Null
              /\ Get(ValueOf(call.outcome), m.name) = Null

\* C6: for a field whose input is absent: optional without default, the output
\* has no such property; with a default d the output field is
\* convertToType(d, type), and a default "" on a String field yields "";
\* required without default, the conversion fails with the missing-field
\* error naming the field.
C6_AbsentField ==
    ConvertedObjectTo("A") =>
        \A i \in 1..Len(MetadataOf("A")) :
            LET m == MetadataOf("A")[i]
            IN  Get(call.val, m.name) = Undefined =>
                    /\ (m.isOptional /\ NoDefault(m) /\ IsOk(call.outcome))
                          => ~HasProp(ValueOf(call.outcome), m.name)
                    /\ (~NoDefault(m) /\ IsOk(call.outcome))
                          => Returned(convertToType(m.default, m.type),
                                      Get(ValueOf(call.outcome), m.name))
                    /\ (m.type = TString /\ m.default = Str(<<>>) /\ NoOtherFailure("A", i))
                          => /\ IsOk(call.outcome)
                             /\ Get(ValueOf(call.outcome), m.name) = Str(<<>>)
                    /\ (~m.isOptional /\ NoDefault(m)) =>
                          /\ IsThrow(call.outcome)
                          /\ NoEarlierFailure("A", i)
                                => Threw(call.outcome, "missing", "A", m.name)

\* The input of the last call with property name removed.
WithoutProp(name) == Put(call.val, name, Undefined)

\* C7: an explicit null takes the field's default exactly as an absent input
\* does: with a non-null default d the output field is convertToType(d, type),
\* and a required field without default fails the conversion with the
\* missing-field error naming it, whatever its type.
C7_NullTakesDefault ==
    ConvertedObjectTo("A") =>
        \A i \in 1..Len(MetadataOf("A")) :
            LET m == MetadataOf("A")[i]
            IN  Get(call.val, m.name) = Null =>
                    /\ call.outcome = convertToType(WithoutProp(m.name), call.toType)
                    /\ (~IsNullish(m.default) /\ IsOk(call.outcome))
                          => Returned(convertToType(m.default, m.type),
                                      Get(ValueOf(call.outcome), m.name))
                    /\ (~m.isOptional /\ NoDefault(m)) =>
                          /\ IsThrow(call.outcome)
                          /\ NoEarlierFailure("A", i)
                                => Threw(call.outcome, "missing", "A", m.name)

\* A field given null was set to its converted default, and then a required
\* record-typed field given null failed the conversion with the missing-field
\* error.
C7_Witness ==
    /\ ConvertedObjectTo("A")
    /\ \E i \in 1..Len(MetadataOf("A")) :
          LET m == MetadataOf("A")[i]
          IN  /\ IsRecordType(m.type) /\ ~m.isOptional /\ Get(call.val, m.name) = Null
              /\ Threw(call.outcome, "missing", "A", m.name)
    /\ \E i \in 1..Len(MetadataOf("A")) :
          LET m == MetadataOf("A")[i]
          IN  /\ ~IsNullish(m.default) /\ Get(call.val, m.name) = Null
              /\ \E k \in 1..Len(LogOf(call.outcome)) :
                    LogOf(call.outcome)[k]
                        = SetEvent("A", m.name, ValueOf(convertToType(m.default, m.type)))


-----------------------------------------------------------------------------
(* Claims about inheritance (Spec) *)

\* The options class c gave to @Prop on its member f.
OwnOptions(c, f) ==
    declared[CHOOSE k \in 1..Len(declared) : declared[k].cls = c /\ declared[k].name = f].options

\* The validators class c declared itself for f, none when it did not declare f.
OwnValidators(c, f) ==
    IF f \in OwnProps(c) THEN PropValidatorsOf(OwnOptions(c, f)) ELSE <<>>

\* The validator list the store holds for field f of class c, empty when it holds none.
ValidatorsOf(c, f) ==
    IF c \in DOMAIN classTypeToPropValidator /\ MapHas(classTypeToPropValidator[c], f)
    THEN MapGet(classTypeToPropValidator[c], f).validators
    ELSE <<>>

\* The validators that ran on field f of class c during the last call.
ValidatorsRun(c, f) ==
    {call.outcome[3][i].by :
        i \in {k \in 1..Len(call.outcome[3]) :
                  /\ call.outcome[3][k].ev = "validate"
                  /\ call.outcome[3][k].cls = c
                  /\ call.outcome[3][k].prop = f}}

ElementsOf(seq) == {seq[i] : i \in 1..Len(seq)}

\* The registered class c declares f, a field its parent's map holds too.
Redeclares(c, f) ==
    /\ c \in classSet
    /\ f \in OwnProps(c)
    /\ MapHas(MetadataOf(ParentOf(c)), f)

\* C8 as stated: the map of a child that redeclares a field of its parent
\* holds the child's type, optionality and default for it and only the
\* validators the child declared for it, and no other validator runs on it
\* when converting to the child.
C8_RedeclaredFieldReplaced ==
    \A c \in Classes, f \in ChainNames :
        Redeclares(c, f) =>
            /\ MapGet(MetadataOf(c), f) = PropMetadataOf(f, OwnOptions(c, f))
            /\ ValidatorsOf(c, f) = OwnValidators(c, f)
            /\ Called(TClass(c)) => ValidatorsRun(c, f) \subseteq ElementsOf(OwnValidators(c, f))

\* The validators of a redeclared field: the child's own when it declared
\* any, else the ones of the parent.
RedeclaredValidators(c, f) ==
    IF OwnValidators(c, f) # <<>> THEN OwnValidators(c, f) ELSE ValidatorsOf(ParentOf(c), f)

\* C8 amended: the map of a child that redeclares a field of its parent holds
\* the child's type, optionality and default for it; its validators are the
\* ones the child declared when it declared at least one, and the parent's
\* validators for that field when the child declared none, and only those
\* run on the field when converting to the child.
C8_RedeclaredKeepsValidators ==
    \A c \in Classes, f \in ChainNames :
        Redeclares(c, f) =>
            /\ MapGet(MetadataOf(c), f) = PropMetadataOf(f, OwnOptions(c, f))
            /\ ValidatorsOf(c, f) = RedeclaredValidators(c, f)
            /\ Called(TClass(c)) =>
                  ValidatorsRun(c, f) \subseteq ElementsOf(RedeclaredValidators(c, f))

\* A child redeclared a field with another type and no validators, and a
\* validator of the parent ran on it in a conversion to the child.
C8_Witness ==
    \E c \in Classes, f \in ChainNames :
        /\ Redeclares(c, f)
        /\ OwnValidators(c, f) = <<>>
        /\ MapGet(MetadataOf(c), f).type # MapGet(MetadataOf(ParentOf(c)), f).type
        /\ Called(TClass(c))
        /\ ValidatorsRun(c, f) # {}
        /\ ValidatorsRun(c, f) \subseteq ElementsOf(ValidatorsOf(ParentOf(c), f))

\* C9: the validator list of a registered class for a field name is the
\* class's own declared list when it declared at least one validator for the
\* name, and otherwise the list of its parent; the two are never combined.
C9_ValidatorsOwnOrInherited ==
    \A c \in classSet, f \in ChainNames :
        ValidatorsOf(c, f) =
            IF OwnValidators(c, f) # <<>> THEN OwnValidators(c, f)
            ELSE ValidatorsOf(ParentOf(c), f)

\* One registered class replaced a non-empty list of its parent by a different
\* list of its own, and one that declared none holds the list of its parent.
C9_Witness ==
    /\ \E c \in classSet, f \in ChainNames :
          /\ OwnValidators(c, f) # <<>>
          /\ ValidatorsOf(ParentOf(c), f) # <<>>
          /\ ValidatorsOf(ParentOf(c), f) # OwnValidators(c, f)
    /\ \E c \in classSet, f \in ChainNames :
          /\ OwnValidators(c, f) = <<>>
          /\ ValidatorsOf(c, f) # <<>>

\* The classes class c extends, at any depth.
RECURSIVE Ancestors(_)
Ancestors(c) ==
    IF ParentOf(c) = NoClass THEN {} ELSE {ParentOf(c)} \cup Ancestors(ParentOf(c))

\* The nearest class, from c upwards, that declares f itself; NoClass when none does.
RECURSIVE Nearest(_, _)
Nearest(c, f) ==
    IF c = NoClass \/ f \in OwnProps(c) THEN c ELSE Nearest(ParentOf(c), f)

\* The fields class c declared itself, as the property decorator stored them.
OwnMap(c) ==
    LET own == OwnDeclarations(c, declared)
    IN  [i \in 1..Len(own) |-> PropMetadataOf(own[i].name, own[i].options)]

\* Class c and every class it extends carry @Class.
ChainRegistered(c) == c \in classSet /\ Ancestors(c) \subseteq classSet

\* C10: when a class and all its ancestors are registered, parents first, its
\* field map holds every field declared by it or by an ancestor at any depth,
\* each as declared by the nearest class, and is its own fields followed by
\* the fields of the direct parent's map it does not declare.
C10_MergedFieldMap ==
    \A c \in Classes :
        ChainRegistered(c) =>
            /\ ElementsOf(MapKeys(MetadataOf(c)))
                   = UNION {OwnProps(a) : a \in {c} \cup Ancestors(c)}
            /\ \A f \in ElementsOf(MapKeys(MetadataOf(c))) :
                   MapGet(MetadataOf(c), f) = PropMetadataOf(f, OwnOptions(Nearest(c, f), f))
            /\ MetadataOf(c) = InheritFrom(MetadataOf(ParentOf(c)), 1, OwnMap(c))

\* The map of a registered grandchild holds a field only its grandparent
\* declared, and a field declared at two levels with different declarations.
C10_Witness ==
    \E c \in Classes, f, g \in ChainNames :
        /\ ChainRegistered(c)
        /\ ParentOf(c) # NoClass /\ ParentOf(ParentOf(c)) # NoClass
        /\ MapHas(MetadataOf(c), f)
        /\ Nearest(c, f) = ParentOf(ParentOf(c))
        /\ MapHas(MetadataOf(c), g)
        /\ Nearest(c, g) # ParentOf(ParentOf(c))
        /\ g \in OwnProps(ParentOf(ParentOf(c)))
        /\ MapGet(MetadataOf(c), g) # MapGet(MetadataOf(ParentOf(ParentOf(c))), g)

-----------------------------------------------------------------------------
(* Claims about the validation pass (SpecValid) *)

\* The steps of the last call, in the order they were taken.
CallLog == LogOf(call.outcome)

\* The outcome of Step2 of the last call, were it a conversion to class c.
Populated(c) == convertProps(call.val, c, MetadataOf(c), 1, Obj(c, <<>>))

\* The steps of the last call that invoked a validator.
ValidateSteps == {k \in 1..Len(CallLog) : CallLog[k].ev = "validate"}

\* The steps of the last call that stored a converted field.
SetSteps == {k \in 1..Len(CallLog) : CallLog[k].ev = "set"}

\* The last call failed with a validation error naming field f.
ValidationFailedOn(c, f) ==
    /\ IsThrow(call.outcome)
    /\ ErrorOf(call.outcome).kind = "validation"
    /\ ErrorOf(call.outcome).cls = c
    /\ ErrorOf(call.outcome).prop = f

\* C11: in a conversion to a record type no validator is invoked before every
\* declared field has been converted and stored, and each validator receives
\* the populated output record: a validator on one field that compares it
\* with another field fails the conversion, naming its field, exactly when
\* the converted values are out of order, and lets it succeed when they are
\* equal.
C11_ValidatorsSeePopulatedRecord ==
    ConvertedObjectTo("A") =>
        /\ \A k \in ValidateSteps, j \in SetSteps : j < k
        /\ ValidateSteps # {} =>
              /\ IsOk(Populated("A"))
              /\ \A f \in ValidNames :
                    HasProp(ValueOf(Populated("A")), f)
                       <=> \E j \in SetSteps :
                              CallLog[j] = SetEvent("A", f, Get(ValueOf(Populated("A")), f))
        /\ \A k \in ValidateSteps :
              /\ CallLog[k].arg = Get(ValueOf(Populated("A")), CallLog[k].prop)
              /\ CallLog[k].by[1] = "NotBefore" =>
                    /\ (k = Len(CallLog) /\ ValidationFailedOn("A", CallLog[k].prop))
                          <=> ~JsGeq(CallLog[k].arg,
                                     Get(ValueOf(Populated("A")), CallLog[k].by[2]))
                    /\ (k = Len(CallLog)
                        /\ CallLog[k].arg = Get(ValueOf(Populated("A")), CallLog[k].by[2]))
                          => IsOk(call.outcome)

\* Field y carries the validator y >= x, x was absent from the input and took
\* its default, and the input's y equal to that default passed the validator.
C11_Witness ==
    /\ ConvertedObjectTo("A")
    /\ IsOk(call.outcome)
    /\ Get(call.val, "x") = Undefined
    /\ Get(ValueOf(call.outcome), "x") = Get(ValueOf(call.outcome), "y")
    /\ \E k \in ValidateSteps :
          CallLog[k] = ValidateEvent("A", "y", Get(call.val, "y"), CustomNotBefore("x"))

\* What the validator of step k of the last call returned.
ReasonAt(k) ==
    ApplyValidator(CallLog[k].by, CallLog[k].arg, CallLog[k].prop,
                   ValueOf(Populated("A"))).err

\* The steps of the last call that invoked a validator of field f, in order.
ValidateStepsOn(f) ==
    SelectSeq([k \in 1..Len(CallLog) |-> k],
              LAMBDA k : CallLog[k].ev = "validate" /\ CallLog[k].prop = f)

\* C12: the validators of a field are invoked in their declared order; as soon
\* as one returns a reason the conversion fails with an error naming that
\* field and that reason, and no validator is invoked after it, of this field
\* or of any other.
C12_ValidatorsInOrderFailFast ==
    ConvertedObjectTo("A") =>
        /\ \A f \in ValidNames :
              /\ Len(ValidateStepsOn(f)) <= Len(ValidatorsOf("A", f))
              /\ \A i \in 1..Len(ValidateStepsOn(f)) :
                    CallLog[ValidateStepsOn(f)[i]].by = ValidatorsOf("A", f)[i]
        /\ \A k \in ValidateSteps :
              ReasonAt(k) # "" =>
                  /\ k = Len(CallLog)
                  /\ ValidationFailedOn("A", CallLog[k].prop)
                  /\ ErrorOf(call.outcome).why = ReasonAt(k)
        /\ (IsThrow(call.outcome) /\ ErrorOf(call.outcome).kind = "validation") =>
              /\ Len(CallLog) \in ValidateSteps
              /\ ReasonAt(Len(CallLog)) = ErrorOf(call.outcome).why
        /\ (IsOk(call.outcome) /\ IsOk(Populated("A"))) =>
              \A f \in ValidNames :
                  HasProp(ValueOf(Populated("A")), f)
                     => Len(ValidateStepsOn(f)) = Len(ValidatorsOf("A", f))

\* The first validator of a field failed the conversion although the second
\* validator of that field and a validator of the other field would have
\* failed too: only the first was invoked.
C12_Witness ==
    /\ ConvertedObjectTo("A")
    /\ IsThrow(call.outcome)
    /\ ErrorOf(call.outcome).kind = "validation"
    /\ ValidateSteps = {Len(CallLog)}
    /\ \E f, g \in ValidNames :
          /\ f # g
          /\ ErrorOf(call.outcome).prop = f
          /\ Len(ValidatorsOf("A", f)) = 2
          /\ ApplyValidator(ValidatorsOf("A", f)[2], Get(ValueOf(Populated("A")), f), f,
                            ValueOf(Populated("A"))).err # ""
          /\ ValidatorsOf("A", g) # <<>>
          /\ HasProp(ValueOf(Populated("A")), g)
          /\ ApplyValidator(ValidatorsOf("A", g)[1], Get(ValueOf(Populated("A")), g), g,
                            ValueOf(Populated("A"))).err # ""

\* The validators of field f come before those of field g in the Step3 loop.
ValidatedBefore(f, g) ==
    /\ MapHas(classTypeToPropValidator["A"], f)
    /\ MapHas(classTypeToPropValidator["A"], g)
    /\ MapIndex(classTypeToPropValidator["A"], f) < MapIndex(classTypeToPropValidator["A"], g)

\* C13: the validators of a field are invoked if and only if the field is
\* present on the populated output record: never for an optional field that
\* was skipped, and also for a field whose stored value is null (unless a
\* validator invoked earlier has failed the conversion).
C13_ValidatedIffPresent ==
    (ConvertedObjectTo("A") /\ IsOk(Populated("A"))) =>
        \A f \in ValidNames :
            ValidatorsOf("A", f) # <<>> =>
                /\ ValidateStepsOn(f) # <<>> => HasProp(ValueOf(Populated("A")), f)
                /\ ( /\ HasProp(ValueOf(Populated("A")), f)
                     /\ \/ IsOk(call.outcome)
                        \/ ValidationFailedOn("A", f)
                        \/ \E g \in ValidNames : ValidationFailedOn("A", g)
                                                    /\ ValidatedBefore(f, g) )
                      => /\ ValidateStepsOn(f) # <<>>
                         /\ CallLog[ValidateStepsOn(f)[1]].arg
                               = Get(ValueOf(Populated("A")), f)

\* A record field absent from the input was stored as null by its default and
\* its validator was invoked with null, while the validators of an optional
\* field that was skipped were not invoked.
C13_Witness ==
    /\ ConvertedObjectTo("A")
    /\ IsOk(call.outcome)
    /\ \E f, g \in ValidNames :
          /\ Get(ValueOf(call.outcome), f) = Null
          /\ ValidateStepsOn(f) # <<>>
          /\ CallLog[ValidateStepsOn(f)[1]].arg = Null
          /\ ValidatorsOf("A", g) # <<>>
          /\ ~HasProp(ValueOf(call.outcome), g)
          /\ ValidateStepsOn(g) = <<>>

-----------------------------------------------------------------------------
(* Claims about the stored field declarations (SpecValid) *)

\* C20: every field declaration stored in the registry with a default other
\* than undefined (null included) has isOptional true, whatever isOptional
\* was passed to @Prop; one with no default is optional exactly when
\* isOptional true was passed.
C20_DefaultForcesOptional ==
    /\ \A c \in DOMAIN classTypeToPropMetadata :
          \A i \in 1..Len(classTypeToPropMetadata[c]) :
              classTypeToPropMetadata[c][i].default # Undefined
                 => classTypeToPropMetadata[c][i].isOptional = TRUE
    /\ \A f \in OwnProps("A") :
          /\ MapHas(MetadataOf("A"), f)
          /\ MapGet(MetadataOf("A"), f).default = OwnOptions("A", f).default
          /\ OwnOptions("A", f).default = Undefined =>
                (MapGet(MetadataOf("A"), f).isOptional
                    <=> OwnOptions("A", f).isOptional = Bool(TRUE))

\* The registry holds a field declared with isOptional false and a default,
\* and a field declared with a default of null, both stored as optional.
C20_Witness ==
    \E f, g \in OwnProps("A") :
        /\ OwnOptions("A", f).isOptional = Bool(FALSE)
        /\ ~IsNullish(OwnOptions("A", f).default)
        /\ MapGet(MetadataOf("A"), f).isOptional
        /\ OwnOptions("A", g).default = Null
        /\ MapGet(MetadataOf("A"), g).isOptional

-----------------------------------------------------------------------------
(* Claims about nested conversions (SpecNest) *)

\* Every record within value v is an instance of class A whose properties
\* are all declared fields of A.
RECURSIVE OnlyDeclared(_)
OnlyDeclared(v) ==
    CASE Kind(v) = "obj" ->
            /\ v[2].proto = "A"
            /\ \A n \in PropNames :
                  HasProp(v, n) => MapHas(MetadataOf("A"), n) /\ OnlyDeclared(Get(v, n))
      [] Kind(v) = "arr" -> \A i \in 1..Len(v[2]) : OnlyDeclared(v[2][i])
      [] OTHER -> TRUE

\* Value v holds, at some depth, an object with a property that is no
\* declared field of A.
RECURSIVE HasUndeclared(_)
HasUndeclared(v) ==
    CASE Kind(v) = "obj" ->
            \E n \in PropNames :
                HasProp(v, n) /\ (~MapHas(MetadataOf("A"), n) \/ HasUndeclared(Get(v, n)))
      [] Kind(v) = "arr" -> \E i \in 1..Len(v[2]) : HasUndeclared(v[2][i])
      [] OTHER -> FALSE

\* C14: the output of a successful conversion to a record type has no
\* property other than the declared fields of the type's schema, at every
\* nesting depth of record-typed fields.
C14_UndeclaredDropped ==
    (call.made /\ IsOk(call.outcome)) => OnlyDeclared(ValueOf(call.outcome))

\* An input with undeclared properties on itself and on a nested record was
\* converted to a record that holds a nested record.
C14_Witness ==
    /\ ConvertedObjectTo("A")
    /\ IsOk(call.outcome)
    /\ ~MapHas(MetadataOf("A"), "z") /\ Get(call.val, "z") # Undefined
    /\ \E f \in NestNames :
          /\ Kind(Get(ValueOf(call.outcome), f)) \in {"obj", "arr"}
          /\ HasUndeclared(Get(call.val, f))
          /\ Get(ValueOf(call.outcome), f) # Arr(<<>>)

\* Every record within value v has every required field of A's schema, and
\* so has every value it holds.
RECURSIVE Complete(_)
Complete(v) ==
    CASE Kind(v) = "obj" ->
            /\ \A i \in 1..Len(MetadataOf("A")) :
                  MetadataOf("A")[i].isOptional = FALSE
                     => HasProp(v, MetadataOf("A")[i].name)
            /\ \A n \in PropNames : Complete(Get(v, n))
      [] Kind(v) = "arr" -> \A i \in 1..Len(v[2]) : Complete(v[2][i])
      [] OTHER -> TRUE

\* The outcome of converting element i of the array of the last call.
ElementAlone(i) == convertToType(call.val[2][i], call.toType[2][1])

\* The last call converted an array to an array of the registered class A.
ConvertedArrayOfA ==
    /\ call.made /\ call.toType = TArrayOf(TClass("A")) /\ "A" \in classSet
    /\ Kind(call.val) = "arr"

\* C15: a failure at any depth (a field of a nested record, an element of an
\* array, a missing required field, a failing validator) fails the top-level
\* call with the error of the innermost failing conversion, and a call that
\* returns never returns a partially populated record: every record of the
\* returned value has every required field of its schema.
C15_FailureAbortsAll ==
    /\ (call.made /\ IsOk(call.outcome)) => Complete(ValueOf(call.outcome))
    /\ ConvertedObjectTo("A") =>
          /\ \A i \in 1..Len(MetadataOf("A")) :
                (IsThrow(FieldAlone(call.val, "A", MetadataOf("A")[i]))
                 /\ NoEarlierFailure("A", i))
                    => Result(call.outcome)
                          = Result(FieldAlone(call.val, "A", MetadataOf("A")[i]))
          /\ (IsOk(Populated("A")) /\ IsThrow(validateStep("A", Populated("A"))))
                => Result(call.outcome) = Result(validateStep("A", Populated("A")))
    /\ ConvertedArrayOfA =>
          \A i \in 1..Len(call.val[2]) :
              (IsThrow(ElementAlone(i)) /\ \A j \in 1..(i - 1) : IsOk(ElementAlone(j)))
                  => Result(call.outcome) = Result(ElementAlone(i))

\* A record two levels down failed (its x is missing or fails the validator
\* although the x of the outer records passes) and the top-level call failed
\* with that record's error.
C15_Witness ==
    /\ ConvertedObjectTo("A")
    /\ IsThrow(call.outcome)
    /\ ErrorOf(call.outcome).prop = "x"
    /\ Get(call.val, "x") = IntNum(1)
    /\ \E f \in NestNames :
          /\ Kind(Get(call.val, f)) = "obj"
          /\ \E g \in NestNames :
                /\ Kind(Get(Get(call.val, f), g)) \in {"obj", "arr"}
                /\ MapHas(MetadataOf("A"), g)
                /\ IsThrow(convertToType(Get(Get(call.val, f), g),
                                         MapGet(MetadataOf("A"), g).type))
                /\ Result(call.outcome)
                      = Result(convertToType(Get(Get(call.val, f), g),
                                             MapGet(MetadataOf("A"), g).type))

\* C19: for a registered record type, convertToType(null, type) returns null
\* and convertToType(v, type) fails for every v that is no object: a string,
\* a number, a boolean, undefined.
C19_NullAndNonObjects ==
    (Called(TClass("A")) /\ "A" \in classSet) =>
        /\ call.val = Null => call.outcome = Ok(Null)
        /\ TypeOf(call.val) \in {"string", "number", "boolean", "undefined"}
              => Threw(call.outcome, "ClassVal", "A", "")

\* null was converted to a class that has a required field and came back as
\* null.
C19_Witness ==
    /\ Called(TClass("A")) /\ "A" \in classSet
    /\ call.val = Null
    /\ Returned(call.outcome, Null)
    /\ \E i \in 1..Len(MetadataOf("A")) : MetadataOf("A")[i].isOptional = FALSE

-----------------------------------------------------------------------------
(* Claims about numbers and arrays (SpecPrim) *)

\* The number v is or, for a string, the number its whole text denotes; NaN
\* when v is neither.
NumericValue(v) ==
    IF Kind(v) = "num" THEN v
    ELSE IF Kind(v) = "str" /\ Trim(v[2]) # <<>> THEN StringToNumber(v[2])
    ELSE NaN

\* v is not numeric at all: no number, and no text with a digit in it.
NotNumeric(v) ==
    \/ Kind(v) \in {"undef", "null", "bool", "nan", "obj"}
    \/ Kind(v) = "str" /\ ~HasDigit(v[2])

NumericStrings == Arr(<<Str(<<"1">>), Str(<<"2">>)>>)

Integers12 == Arr(<<IntNum(1), IntNum(2)>>)

\* C17 as stated: convertToType(["1", "2"], [Int]) fails, while
\* convertToType([1, 2], [Int]) returns [1, 2].
C17_NumericStringsRejected ==
    Called(TArrayOf(TInt)) =>
        /\ call.val = NumericStrings => IsThrow(call.outcome)
        /\ call.val = Integers12 => call.outcome = Ok(Integers12)

\* C17 amended: convertToType(["1", "2"], [Int]) returns [1, 2], every
\* element being converted as convertToType(element, Int) converts it, and
\* so does convertToType([1, 2], [Int]).
C17_NumericStringsConverted ==
    Called(TArrayOf(TInt)) =>
        /\ call.val = NumericStrings => call.outcome = Ok(Integers12)
        /\ call.val = Integers12 => call.outcome = Ok(Integers12)

\* The array ["1", "2"] was converted to an array of Int and came back as
\* the array of the numbers 1 and 2.
C17_Witness ==
    /\ Called(TArrayOf(TInt))
    /\ call.val = NumericStrings
    /\ IsOk(call.outcome)
    /\ ValueOf(call.outcome)[2] = <<IntNum(1), IntNum(2)>>

\* The last call converted an array to an array type with one element type.
ConvertedArray ==
    /\ call.made
    /\ call.toType[1] = "Array" /\ Len(call.toType[2]) = 1
    /\ Kind(call.val) = "arr"

\* C18: when every element of the input array converts to the element type,
\* the conversion returns an array of the same length whose i-th element is
\* convertToType of the input's i-th element, nested array types included;
\* when an element fails to convert, the whole conversion fails.
C18_ArrayElementwise ==
    ConvertedArray =>
        /\ (\A i \in 1..Len(call.val[2]) : IsOk(ElementAlone(i))) =>
              /\ IsOk(call.outcome)
              /\ Kind(ValueOf(call.outcome)) = "arr"
              /\ Len(ValueOf(call.outcome)[2]) = Len(call.val[2])
              /\ \A i \in 1..Len(call.val[2]) :
                    ValueOf(call.outcome)[2][i] = ValueOf(ElementAlone(i))
        /\ (\E i \in 1..Len(call.val[2]) : IsThrow(ElementAlone(i))) => IsThrow(call.outcome)

\* An array of two different arrays was converted to an array of arrays of
\* Int and came back with its elements in the same order.
C18_Witness ==
    /\ ConvertedArray
    /\ call.toType = TArrayOf(TArrayOf(TInt))
    /\ IsOk(call.outcome)
    /\ Len(call.val[2]) = 2
    /\ call.val[2][1] # call.val[2][2]
    /\ ValueOf(call.outcome)[2] = <<ValueOf(ElementAlone(1)), ValueOf(ElementAlone(2))>>

-----------------------------------------------------------------------------
(* Claims about declarations (SpecDecl) *)

\* Every array type within type, at any depth, has exactly one element type.
RECURSIVE WellFormed(_)
WellFormed(type) ==
    type[1] = "Array" => (Len(type[2]) = 1 /\ WellFormed(type[2][1]))

\* C21: after any sequence of field declarations, every array type reachable
\* from a field type stored in the registry, at any nesting depth, wraps
\* exactly one element type: a declaration whose type holds an array type
\* with no or several elements fails and stores nothing.
C21_ArrayTypesWellFormed ==
    /\ \A c \in DOMAIN classTypeToPropMetadata :
          \A i \in 1..Len(classTypeToPropMetadata[c]) :
              WellFormed(classTypeToPropMetadata[c][i].type)
    /\ \A k \in 1..Len(declared) : WellFormed(declared[k].options.type)

\* The keys of an inner map of the store.
KeySet(m) == {m[i].name : i \in 1..Len(m)}

\* In a step, no registered class and no field name of a field map is lost.
ClassesAndFieldsKept ==
    /\ classSet \subseteq classSet'
    /\ \A c \in DOMAIN classTypeToPropMetadata :
          /\ c \in DOMAIN classTypeToPropMetadata'
          /\ KeySet(classTypeToPropMetadata[c]) \subseteq KeySet(classTypeToPropMetadata'[c])

\* The field names whose entry the validator map of class c loses in a step.
LostValidators(c) ==
    KeySet(classTypeToPropValidator[c]) \ KeySet(classTypeToPropValidator'[c])

\* The step applies @Prop without validators to field f of class c.
DeclaresWithoutValidators(c, f) ==
    /\ Len(declared') = Len(declared) + 1
    /\ declared'[Len(declared')].cls = c
    /\ declared'[Len(declared')].name = f
    /\ PropValidatorsOf(declared'[Len(declared')].options) = <<>>

\* C22 as stated: across any sequence of @Prop and @Class applications the
\* registry only grows: the set of registered classes never loses a member,
\* no field map loses a field name and no validator map loses an entry.
C22_RegistryOnlyGrows ==
    [][ /\ ClassesAndFieldsKept
        /\ \A c \in DOMAIN classTypeToPropValidator :
              /\ c \in DOMAIN classTypeToPropValidator'
              /\ LostValidators(c) = {} ]_vars

\* C22 amended: the set of registered classes never loses a member and no
\* field map loses a field name; a validator map loses an entry only by an
\* application of @Prop without validators to that class and field name,
\* which removes that one entry.
C22_GrowsButForRedeclaredField ==
    [][ /\ ClassesAndFieldsKept
        /\ \A c \in DOMAIN classTypeToPropValidator :
              /\ c \in DOMAIN classTypeToPropValidator'
              /\ \A f \in LostValidators(c) : DeclaresWithoutValidators(c, f) ]_vars

\* A field was declared with validators, declared again on the same class
\* without any, and the validator map of the class holds no entry for it,
\* while the field map still holds the field.
C22_Witness ==
    \E k \in 1..Len(declared) :
        /\ PropValidatorsOf(declared[k].options) # <<>>
        /\ MapHas(MetadataOf(declared[k].cls), declared[k].name)
        /\ declared[k].cls \in DOMAIN classTypeToPropValidator
        /\ ~MapHas(classTypeToPropValidator[declared[k].cls], declared[k].name)
        /\ \E j \in (k + 1)..Len(declared) :
              /\ declared[j].cls = declared[k].cls
              /\ declared[j].name = declared[k].name
              /\ PropValidatorsOf(declared[j].options) = <<>>

-----------------------------------------------------------------------------
(* Claims about classes that are not registered (SpecNest) *)

\* C23: converting any value, null included, to a class that never received
\* @Class fails with an error and never returns a value, whether or not the
\* class has members that carry @Prop.
C23_UnregisteredClassFails ==
    (call.made /\ call.toType[1] = "Class" /\ call.toType[2] \notin classSet) =>
        /\ IsThrow(call.outcome)
        /\ Threw(call.outcome, "unsupported", "", "")
        /\ LogOf(call.outcome) = <<>>

\* null was converted to a class whose members carry @Prop but which has no
\* @Class, and the call failed.
C23_Witness ==
    /\ Called(TClass("A"))
    /\ "A" \notin classSet
    /\ MetadataOf("A") # <<>>
    /\ call.val = Null
    /\ IsThrow(call.outcome)

-----------------------------------------------------------------------------
(* Claims about converting twice (SpecPrim) *)

\* C24: when convertToType(v, T) returns r, convertToType(r, T) returns a
\* value equal to r, for primitive types, dates, plain objects and arrays.
C24_Idempotent ==
    (call.made /\ IsOk(call.outcome)) =>
        Returned(convertToType(ValueOf(call.outcome), call.toType), ValueOf(call.outcome))

-----------------------------------------------------------------------------
(* Claims about the trimming validator (SpecTrim) *)

\* Field propMetadata of class A is a String field whose only validator is
\* NewValidatorStringNotEmpty({ trim: true }).
TrimmingField(propMetadata) ==
    /\ propMetadata.type = TString
    /\ ValidatorsOf("A", propMetadata.name) = <<NewValidatorStringNotEmpty(TrimOnly)>>

\* Value v is a string with some text other than white space.
TextWithContent(v) == Kind(v) = "str" /\ Trim(v[2]) # <<>>

\* C25: a String field that carries NewValidatorStringNotEmpty({ trim: true })
\* and is given a string with some text converts, and when the conversion
\* succeeds the field of the output record holds the input string without
\* its leading and trailing white space; the validator writes to the output
\* record, which is another object than the input.
C25_TrimmedOnOutput ==
    ConvertedObjectTo("A") =>
        \A i \in 1..Len(MetadataOf("A")) :
            (TrimmingField(MetadataOf("A")[i])
             /\ TextWithContent(Get(call.val, MetadataOf("A")[i].name))) =>
                /\ IsOk(FieldAlone(call.val, "A", MetadataOf("A")[i]))
                /\ IsOk(call.outcome) =>
                      Get(ValueOf(call.outcome), MetadataOf("A")[i].name)
                          = Str(Trim(Get(call.val, MetadataOf("A")[i].name)[2]))

\* The output record as it is when step k of the last call invokes its
\* validator: the populated record after the writes of the validators
\* invoked before.
RECURSIVE RecordBefore(_)
RecordBefore(k) ==
    IF k = 1 \/ CallLog[k - 1].ev = "set" THEN ValueOf(Populated("A"))
    ELSE ApplyValidator(CallLog[k - 1].by, CallLog[k - 1].arg, CallLog[k - 1].prop,
                        RecordBefore(k - 1)).obj

\* C29: each validator of a field's list is invoked with the value the field
\* has on the output record at that moment: a validator that follows the
\* trimming validator receives the value that validator wrote back.
C29_ValidatorsGetCurrentValue ==
    ConvertedObjectTo("A") =>
        \A k \in ValidateSteps :
            CallLog[k].arg = Get(RecordBefore(k), CallLog[k].prop)

-----------------------------------------------------------------------------
(* Claims about the depth of the recursion (SpecDepth) *)

\* The greatest of the numbers of a set, 0 for the empty set.
MaxOf(S) == IF S = {} THEN 0 ELSE CHOOSE n \in S : \A k \in S : k <= n

\* The nesting depth of a value: 0 for a value that is no object and no
\* array, else one more than the deepest value it holds.
RECURSIVE NestingDepth(_)
NestingDepth(v) ==
    CASE Kind(v) = "obj" -> 1 + MaxOf({NestingDepth(Get(v, n)) : n \in PropNames})
      [] Kind(v) = "arr" -> 1 + MaxOf({NestingDepth(v[2][i]) : i \in 1..Len(v[2])})
      [] OTHER -> 0

\* C26: for every registry and every finite input, convertToType ends
\* without exhausting the stack, and the depth of its recursion is at most
\* the nesting depth of the input plus one (the call for a value that is no
\* object), also for a class that refers to itself through an array field
\* and for fields that declare defaults.
C26_DepthBoundedByInput ==
    call.made =>
        /\ ~ExhaustsStack(call.val, call.toType)
        /\ IsThrow(call.outcome) => ErrorOf(call.outcome).kind # "RangeError"
        /\ FrameDepth(call.val, call.toType, MaxFrames + 1) <= NestingDepth(call.val) + 1

-----------------------------------------------------------------------------
(* Claims about the enum validator (SpecEnum) *)

\* The values of the members of an enum, read from its name -> value entries:
\* a reverse entry is one whose key is the text of a number that another
\* entry holds as its value.
MemberValues(enumDefine) ==
    {enumDefine[i][2] :
        i \in {k \in 1..Len(enumDefine) :
                  ~\E j \in 1..Len(enumDefine) :
                        /\ Kind(enumDefine[j][2]) = "num"
                        /\ enumDefine[k][1] = NumberText(enumDefine[j][2])}}

NumericEnum(enumDefine) == \A v \in MemberValues(enumDefine) : Kind(v) = "num"

\* C27: the validator made by NewValidatorEnumValueExist from a numeric enum
\* returns no reason exactly when the validated value is the value of one of
\* the enum's members; every other value, a member's name included, gets a
\* reason.
C27_EnumMembership ==
    (call.made /\ NumericEnum(call.validator[2])) =>
        (call.returned = "" <=> call.val \in MemberValues(call.validator[2]))

-----------------------------------------------------------------------------
(* Claims about the order of validation (SpecDecl) *)

\* Field f of class c is present on the record parsed and one of its
\* validators returns a reason for it.
FailsValidation(c, f, parsed) ==
    /\ Get(parsed, f) # Undefined
    /\ \E j \in 1..Len(ValidatorsOf(c, f)) :
          ApplyValidator(ValidatorsOf(c, f)[j], Get(parsed, f), f, parsed).err # ""

\* C28: when several fields of a record have a failing validator, the
\* validation error names the first of them in the merged field order of the
\* class, the order in which the fields are populated; this also holds for a
\* class that inherits validators from its parent.
C28_ValidatedInPopulationOrder ==
    \A c \in classSet : \A i \in 1..Len(MetadataOf(c)) :
        (/\ ConvertedObjectTo(c)
         /\ IsOk(Populated(c))
         /\ ValidationFailedOn(c, MetadataOf(c)[i].name)) =>
            \A j \in 1..(i - 1) :
                ~FailsValidation(c, MetadataOf(c)[j].name, ValueOf(Populated(c)))

\* The validator map of class c.
ValidatorMapOf(c) ==
    IF c \in DOMAIN classTypeToPropValidator THEN classTypeToPropValidator[c] ELSE <<>>

\* C28, amended: when several fields of a record have a failing validator, the
\* validation error names the first of them in the order of the class's
\* validator map (the fields the class gave validators itself, in the order
\* they first got them, and after them the fields whose validators come from
\* the parent), and that field has a failing validator.
C28_ValidatedInValidatorMapOrder ==
    \A c \in classSet : \A i \in 1..Len(ValidatorMapOf(c)) :
        (/\ ConvertedObjectTo(c)
         /\ IsOk(Populated(c))
         /\ ValidationFailedOn(c, ValidatorMapOf(c)[i].name)) =>
            /\ FailsValidation(c, ValidatorMapOf(c)[i].name, ValueOf(Populated(c)))
            /\ \A j \in 1..(i - 1) :
                  ~FailsValidation(c, ValidatorMapOf(c)[j].name, ValueOf(Populated(c)))

\* A class that inherits validators was converted to, two of its fields fail
\* their validators, and the error names the one populated second.
C28_Witness ==
    \E c \in classSet :
        /\ ParentOf(c) \in classSet
        /\ ConvertedObjectTo(c)
        /\ \E i, j \in 1..Len(MetadataOf(c)) :
              /\ j < i
              /\ ValidationFailedOn(c, MetadataOf(c)[i].name)
              /\ \A k \in 1..Len(declared) :
                    (declared[k].cls = c /\ declared[k].name = MetadataOf(c)[j].name) =>
                        PropValidatorsOf(declared[k].options) = <<>>
              /\ FailsValidation(c, MetadataOf(c)[j].name, ValueOf(Populated(c)))
              /\ FailsValidation(c, MetadataOf(c)[i].name, ValueOf(Populated(c)))

-----------------------------------------------------------------------------
(* Claims about undeclared properties (SpecNest) *)

\* Value v without the properties that type does not declare: of a record of
\* a registered class the declared fields are kept, projected in turn by the
\* type of the field, and an array is projected element by element.
RECURSIVE Project(_, _)
Project(v, type) ==
    IF type[1] = "Class" /\ type[2] \in classSet /\ Kind(v) = "obj"
    THEN Obj(v[2].proto,
             [n \in {m \in PropNames : HasProp(v, m) /\ MapHas(MetadataOf(type[2]), m)} |->
                 Project(Get(v, n), MapGet(MetadataOf(type[2]), n).type)])
    ELSE IF type[1] = "Array" /\ Len(type[2]) = 1 /\ Kind(v) = "arr"
    THEN Arr([i \in 1..Len(v[2]) |-> Project(v[2][i], type[2][1])])
    ELSE v

\* C30: two inputs that agree on the fields a registered class declares, at
\* every depth of its record fields, and differ in undeclared properties get
\* the same outcome from convertToType: the same failure, or equal outputs,
\* after the same validator calls with the same arguments; so do two arrays
\* of such inputs. Every input is compared with the one that has no
\* undeclared property at all.
C30_UndeclaredIgnored ==
    call.made =>
        call.outcome = convertToType(Project(call.val, call.toType), call.toType)

\* An input with undeclared properties of its own and of a nested record was
\* converted to a class, with a validator called on the way.
C30_Witness ==
    /\ ConvertedObjectTo("A")
    /\ ~MapHas(MetadataOf("A"), "z") /\ HasProp(call.val, "z")
    /\ \E f \in NestNames :
          /\ MapHas(MetadataOf("A"), f)
          /\ Project(Get(call.val, f), MapGet(MetadataOf("A"), f).type) # Get(call.val, f)
    /\ ValidateSteps # {}

====
